---- MODULE Spec2Model ----
(***************************************************************************)
(* A model of retro_asset_gen's image processing (image_processor.py).    *)
(*                                                                         *)
(* An image is a record [w, h, px] with px a function from <<x, y>> to an *)
(* RGBA pixel <<r, g, b, a>>; every channel is an 8-bit value.  The image  *)
(* file the functions read and write back is the variable img.  Distances  *)
(* are compared through their squares, square roots through integer        *)
(* inequalities, so every comparison of the code is decided exactly.       *)
(***************************************************************************)
EXTENDS Integers, Sequences, FiniteSets, TLC

VARIABLES
    img,        \* the image stored at image_path (NoImage: no file)
    orig,       \* what image_path held when the operation was called
    op,         \* the operation that has run ("none" before any)
    args,       \* the arguments the operation was called with
    ret,        \* what the operation returned or raised
    whiteImg,   \* difference_matte: the image at white_bg_path
    blackImg,   \* difference_matte: the image at black_bg_path
    outImg,     \* difference_matte: the image at output_path (NoImage: no file)
    pc,         \* auto_remove_background: the pass that runs next
    pixels,     \* auto_remove_background: the pixel buffer in memory
    local,      \* auto_remove_background, quantize_png: the local variables
    saves,      \* how many times image_path (or state.json) was written
    files,      \* finalize: the files of the project directory, by name
    project     \* StateManager: the ProjectState persisted in state.json

vars == <<img, orig, op, args, ret, whiteImg, blackImg, outImg, pc, pixels, local,
          saves, files, project>>

\* No file at a path, and no value returned yet.
NoImage == [w |-> 0, h |-> 0, px |-> [q \in {} |-> <<>>]]
NoReturn == [kind |-> "none"]
NoFiles == [name \in {} |-> NoImage]
NoProject == [exists |-> FALSE]

----------------------------------------------------------------------------
(* Arithmetic helpers *)

Min(a, b) == IF a <= b THEN a ELSE b
Max(a, b) == IF a >= b THEN a ELSE b
Sq(a) == a * a

\* The largest n in lo..hi with P(n), given P(lo) and P monotone (true, then false).
RECURSIVE LastTrue(_, _, _)
LastTrue(P(_), lo, hi) ==
    IF lo >= hi THEN lo
    ELSE LET mid == (lo + hi + 1) \div 2
         IN  IF P(mid) THEN LastTrue(P, mid, hi) ELSE LastTrue(P, lo, mid - 1)

RGB(p) == <<p[1], p[2], p[3]>>
WithAlpha(p, a) == <<p[1], p[2], p[3], a>>
Alpha(p) == p[4]

\* _color_distance, squared: the code's sqrt is taken by the comparisons below.
ColorDist2(c1, c2) == Sq(c1[1] - c2[1]) + Sq(c1[2] - c2[2]) + Sq(c1[3] - c2[3])

\* sqrt(d2) <= t and sqrt(d2) < t for an integer threshold t.
DistLE(d2, t) == t >= 0 /\ d2 <= t * t
DistLT(d2, t) == t > 0 /\ d2 < t * t
DistGE(d2, t) == ~DistLT(d2, t)

Cells(w, h) == (0 .. w - 1) \X (0 .. h - 1)

Range(s) == {s[i] : i \in DOMAIN s}
Pos(im) == DOMAIN im.px

\* A result computed in floats that lies exactly on a rounding boundary may
\* come out on either side of it.  lo and hi are the pixel buffers with every
\* such channel rounded down and rounded up; the buffers the code can produce
\* take each channel of each pixel from one or the other.
Either(lo, hi) ==
    {<<r, g, b, a>> : r \in {lo[1], hi[1]}, g \in {lo[2], hi[2]},
                      b \in {lo[3], hi[3]}, a \in {lo[4], hi[4]}}
PixelsBetween(lo, hi) ==
    IF lo = hi THEN {lo}
    ELSE {f \in [DOMAIN lo -> UNION {Either(lo[q], hi[q]) : q \in DOMAIN lo}] :
             \A q \in DOMAIN lo : f[q] \in Either(lo[q], hi[q])}

CountIn(seq, c) == Cardinality({i \in 1 .. Len(seq) : seq[i] = c})

\* The mutant of MostCommon: among the colours of the highest count, the last
\* encountered wins.
MostCommonLast(seq) ==
    LET last == CHOOSE i \in 1 .. Len(seq) :
                    /\ \A j \in 1 .. Len(seq) : CountIn(seq, seq[j]) <= CountIn(seq, seq[i])
                    /\ \A j \in i + 1 .. Len(seq) : CountIn(seq, seq[j]) < CountIn(seq, seq[i])
    IN  seq[last]

\* Counter(seq).most_common(1)[0][0]: the most frequent element, the first
\* encountered among those of the highest count.
MostCommon(seq) ==
    LET best == CHOOSE n \in 0 .. Len(seq) :
                    /\ \E i \in 1 .. Len(seq) : CountIn(seq, seq[i]) = n
                    /\ \A i \in 1 .. Len(seq) : CountIn(seq, seq[i]) <= n
        first == CHOOSE i \in 1 .. Len(seq) :
                    /\ CountIn(seq, seq[i]) = best
                    /\ \A j \in 1 .. i - 1 : CountIn(seq, seq[j]) < best
    IN  seq[first]

----------------------------------------------------------------------------
(* make_background_transparent (UniformMatte) *)

\* config.py: the default thresholds.
AlphaBgThreshold == 15
AlphaFgThreshold == 80

\* The four corner pixels in the order the code samples them.
Corners(im) ==
    << RGB(im.px[<<0, 0>>]), RGB(im.px[<<im.w - 1, 0>>]),
       RGB(im.px[<<0, im.h - 1>>]), RGB(im.px[<<im.w - 1, im.h - 1>>]) >>

DetectBackground(im) == MostCommon(Corners(im))

\* The mutant of EdgeAlpha: alpha_float = dist / (f - b), the background
\* threshold not subtracted.
EdgeAlphaNoOffset(d2, b, f, half) ==
    LET Reach(n) == Sq(n * (f - b)) <= 260100 * d2
        n == LastTrue(Reach, 0, 509)
    IN  (n + 1) \div 2

\* alpha = _clamp(alpha_float * 255) with alpha_float = (dist - b) / (f - b),
\* for b < dist < f.  n is floor(2 * 255 * alpha_float); an odd n reached
\* exactly is a value halfway between two integers, where the float product
\* may land on either side: half (0 or 1) says which.
EdgeAlpha(d2, b, f, half) ==
    LET Reach(n) == Sq(n * (f - b) + 510 * b) <= 260100 * d2
        n == LastTrue(Reach, 0, 509)
        exact == Sq(n * (f - b) + 510 * b) = 260100 * d2
    IN  IF n % 2 = 0 THEN n \div 2
        ELSE IF exact THEN (n - 1) \div 2 + half
        ELSE (n + 1) \div 2

\* The mutant of AboveNoiseFloor: no guard, every edge pixel is decontaminated.
NoNoiseFloor(d2, b, f) == TRUE

\* The mutant of AboveNoiseFloor: alpha_float >= 0.01.
NoiseFloorInclusive(d2, b, f) == 10000 * d2 >= Sq(f + 99 * b)

\* alpha_float > 0.01
AboveNoiseFloor(d2, b, f) == 10000 * d2 > Sq(f + 99 * b)

\* _clamp((c - (1 - alpha_float) * bg) / alpha_float) for one channel, which is
\* bg + (c - bg) * (f - b) / (dist - b) rounded and clamped to 0..255.
\* Above(m): the quotient is above m - 1/2; Exactly(m): it is m - 1/2.
DecontaminateChannel(c, bg, d2, b, f, half) ==
    LET D == c - bg
        K(m) == 2 * (m - bg) - 1
        L(m) == 2 * D * (f - b) + K(m) * b
        Above(m) ==
            IF m = 0 THEN TRUE
            ELSE IF K(m) > 0 THEN L(m) > 0 /\ Sq(L(m)) > Sq(K(m)) * d2
            ELSE L(m) >= 0 \/ Sq(L(m)) < Sq(K(m)) * d2
        Exactly(m) ==
            /\ Sq(L(m)) = Sq(K(m)) * d2
            /\ (K(m) > 0) = (L(m) > 0)
        k == LastTrue(Above, 0, 255)
    IN  IF k < 255 /\ Exactly(k + 1) THEN k + half ELSE k

\* The mutant of MattePixel: a background pixel has its colour zeroed.
MattePixelZeroed(p, bg, b, f, half) ==
    LET d2 == ColorDist2(RGB(p), bg)
    IN  IF DistLE(d2, b) THEN <<0, 0, 0, 0>>
        ELSE IF DistGE(d2, f) THEN WithAlpha(p, 255)
        ELSE IF AboveNoiseFloor(d2, b, f)
             THEN << DecontaminateChannel(p[1], bg[1], d2, b, f, half),
                     DecontaminateChannel(p[2], bg[2], d2, b, f, half),
                     DecontaminateChannel(p[3], bg[3], d2, b, f, half),
                     EdgeAlpha(d2, b, f, half) >>
             ELSE WithAlpha(p, EdgeAlpha(d2, b, f, half))

\* One pixel of the main loop.
MattePixel(p, bg, b, f, half) ==
    LET d2 == ColorDist2(RGB(p), bg)
    IN  IF DistLE(d2, b) THEN WithAlpha(p, 0)
        ELSE IF DistGE(d2, f) THEN WithAlpha(p, 255)
        ELSE IF AboveNoiseFloor(d2, b, f)
             THEN << DecontaminateChannel(p[1], bg[1], d2, b, f, half),
                     DecontaminateChannel(p[2], bg[2], d2, b, f, half),
                     DecontaminateChannel(p[3], bg[3], d2, b, f, half),
                     EdgeAlpha(d2, b, f, half) >>
             ELSE WithAlpha(p, EdgeAlpha(d2, b, f, half))

\* The bucket the loop counts the pixel in.
MatteBucket(p, bg, b, f) ==
    LET d2 == ColorDist2(RGB(p), bg)
    IN  IF DistLE(d2, b) THEN "transparent"
        ELSE IF DistGE(d2, f) THEN "opaque"
        ELSE "edge"

MatteImage(im, b, f, half) ==
    LET bg == DetectBackground(im)
    IN  [im EXCEPT !.px = [q \in Pos(im) |-> MattePixel(im.px[q], bg, b, f, half)]]

\* Every image the call can save.
MatteOutcomes(im, b, f) ==
    { [im EXCEPT !.px = g] :
        g \in PixelsBetween(MatteImage(im, b, f, 0).px, MatteImage(im, b, f, 1).px) }

MatteStats(im, b, f) ==
    LET bg == DetectBackground(im)
        N(k) == Cardinality({q \in Pos(im) : MatteBucket(im.px[q], bg, b, f) = k})
    IN  [kind |-> "stats", actual_bg |-> bg, fully_transparent |-> N("transparent"),
         partially_transparent |-> N("edge"), fully_opaque |-> N("opaque"),
         total |-> im.w * im.h]

----------------------------------------------------------------------------
(* difference_matte (DifferenceMatte) *)

\* a * b <= c * d and a * b = c * d for naturals below 2^20, whose products
\* exceed 32 bits: they are compared as two-digit numbers in base 2^20.
Product(a, b) ==
    LET a1 == a \div 1024
        a0 == a % 1024
        b1 == b \div 1024
        b0 == b % 1024
        mid == a1 * b0 + a0 * b1
        low == (mid % 1024) * 1024 + a0 * b0
    IN  << a1 * b1 + mid \div 1024 + low \div 1048576, low % 1048576 >>

ProductLE(a, b, c, d) ==
    LET x == Product(a, b)
        y == Product(c, d)
    IN  x[1] < y[1] \/ (x[1] = y[1] /\ x[2] <= y[2])

ProductEQ(a, b, c, d) == Product(a, b) = Product(c, d)

\* The k in 1..254 for which int(alpha * 255) at pixel_dist = sqrt(3) * k is
\* 254 - k: the float product falls just short of the exact value 255 - k.
FloatShortK ==
    { 43, 74, 75, 89, 90, 123, 132, 141, 148, 154, 156, 157, 163, 165, 169, 172,
      178, 180, 181, 187, 189, 193, 196, 198, 204, 213, 222, 228, 237, 246, 252 }

\* The mutant of DiffAlpha: alpha = pixel_dist / bg_dist, not its complement.
DiffAlphaInverted(p2) ==
    LET Below(k) == k = 0 \/ 3 * Sq(k) <= p2
    IN  LastTrue(Below, 0, 255)

\* int(alpha * 255), alpha = clamp(1 - pixel_dist / bg_dist) and
\* bg_dist = sqrt(3 * 255^2): 255 - k for the least k with 3 * k^2 >= p2.
DiffAlpha(p2) ==
    LET Below(k) == k = 0 \/ 3 * Sq(k - 1) < p2
        k == LastTrue(Below, 0, 255)
    IN  IF 3 * Sq(k) = p2 /\ k \in FloatShortK THEN 254 - k ELSE 255 - k

\* alpha > 0.01
DiffAlphaAboveFloor(p2) == p2 <= 191193

\* min(255, int(c / alpha)) for one channel of the black-background pixel.
\* Fits(m): m * alpha <= c.  Where the quotient is an integer above c the
\* float division may fall just short of it: short (0 or 1) says whether.
DiffChannel(c, p2, short) ==
    LET Fits(m) == m <= c \/ ProductLE(3 * 255 * (m - c), 255 * (m - c), Sq(m), p2)
        q == LastTrue(Fits, 0, 255)
    IN  IF q > c /\ ProductEQ(3 * 255 * (q - c), 255 * (q - c), Sq(q), p2)
        THEN q - short
        ELSE q

DiffPixel(pw, pb, short) ==
    LET p2 == ColorDist2(RGB(pw), RGB(pb))
    IN  IF DiffAlphaAboveFloor(p2)
        THEN << DiffChannel(pb[1], p2, short), DiffChannel(pb[2], p2, short),
                DiffChannel(pb[3], p2, short), DiffAlpha(p2) >>
        ELSE << 0, 0, 0, DiffAlpha(p2) >>

DiffImage(wi, bi, short) ==
    [w |-> wi.w, h |-> wi.h,
     px |-> [q \in Pos(wi) |-> DiffPixel(wi.px[q], bi.px[q], short)]]

\* Every image the call can save.
DiffOutcomes(wi, bi) ==
    { [w |-> wi.w, h |-> wi.h, px |-> g] :
        g \in PixelsBetween(DiffImage(wi, bi, 0).px, DiffImage(wi, bi, 1).px) }

DiffStats(out) ==
    LET N(S) == Cardinality({q \in Pos(out) : Alpha(out.px[q]) \in S})
    IN  [kind |-> "stats", transparent |-> N({0}), semi_transparent |-> N(1 .. 254),
         opaque |-> N({255}), total |-> out.w * out.h]

DimensionMismatch ==
    [kind |-> "raise", error |-> "ValueError", message |-> "Dimension mismatch"]

\* Image.new("RGBA", (width, height)): every pixel (0, 0, 0, 0).
BlankImage(w, h) == [w |-> w, h |-> h, px |-> [q \in Cells(w, h) |-> <<0, 0, 0, 0>>]]

\* The mutant of DiffCall: the output image is created and saved before the
\* sizes are compared.
DiffCallSavesFirst(wi, bi, old) ==
    IF <<wi.w, wi.h>> # <<bi.w, bi.h>>
    THEN {[out |-> BlankImage(wi.w, wi.h), ret |-> DimensionMismatch]}
    ELSE {[out |-> o, ret |-> DiffStats(o)] : o \in DiffOutcomes(wi, bi)}

\* difference_matte as a whole: what output_path holds afterwards (old: what
\* it held before) and what the call returns or raises.
DiffCall(wi, bi, old) ==
    IF <<wi.w, wi.h>> # <<bi.w, bi.h>>
    THEN {[out |-> old, ret |-> DimensionMismatch]}
    ELSE {[out |-> o, ret |-> DiffStats(o)] : o \in DiffOutcomes(wi, bi)}

----------------------------------------------------------------------------
(* Input images *)

MaxWidth == 2

\* The sizes of at most n pixels, at most MaxWidth wide.
Dims(n) == {d \in (1 .. MaxWidth) \X (1 .. n) : d[1] * d[2] <= n}

\* Every opaque image of at most n pixels with the colours of pal.
ImagesOver(pal, n) ==
    UNION { { [w |-> d[1], h |-> d[2], px |-> f] : f \in [Cells(d[1], d[2]) -> pal] } :
            d \in Dims(n) }

Opaque(cols) == {<<c[1], c[2], c[3], 255>> : c \in cols}

White == <<255, 255, 255>>
Black == <<0, 0, 0>>
Dark == <<10, 10, 10>>

MaxPixels == 4

\* Colours at the distances from White where the matte changes its answer:
\* 15 (the background threshold), just above it (an edge of alpha 0), 67 (an
\* edge whose decontaminated channels fall halfway between two integers),
\* just below 80 (an edge of alpha 255), and far.
UniformPalette ==
    Opaque({ White, <<255, 255, 240>>, <<255, 254, 240>>,
             <<249, 192, 233>>, <<249, 244, 176>>, Dark })

\* The 4x4 white image with a 2x2 dark centre.
Example4x4 ==
    [w |-> 4, h |-> 4,
     px |-> [q \in Cells(4, 4) |->
                IF q[1] \in {1, 2} /\ q[2] \in {1, 2}
                THEN <<10, 10, 10, 255>> ELSE <<255, 255, 255, 255>>]]

UniformImages == ImagesOver(UniformPalette, MaxPixels) \cup {Example4x4}

\* The configured (bg_threshold, fg_threshold): the defaults and a shifted band.
ThresholdPairs == {<<AlphaBgThreshold, AlphaFgThreshold>>, <<10, 75>>}

MaxDiffPixels == 2

DiffPalette == Opaque({White, Black, <<43, 43, 43>>})

DiffImages == ImagesOver(DiffPalette, MaxDiffPixels)

\* What output_path may hold before difference_matte runs.
StaleOutput == [w |-> 1, h |-> 1, px |-> [q \in Cells(1, 1) |-> <<1, 2, 3, 4>>]]

----------------------------------------------------------------------------
(* The matte operations as actions *)

FloodIdle == pc = "idle" /\ pixels = NoImage /\ local = NoReturn

InitUniform ==
    /\ img \in UniformImages
    /\ orig = NoImage /\ op = "none" /\ args = NoReturn /\ ret = NoReturn
    /\ whiteImg = NoImage /\ blackImg = NoImage /\ outImg = NoImage
    /\ FloodIdle
    /\ saves = 0
    /\ project = NoProject
    /\ files = NoFiles

InitDiff ==
    /\ whiteImg \in DiffImages
    /\ blackImg \in DiffImages
    /\ outImg \in {NoImage, StaleOutput}
    /\ img = NoImage /\ orig = NoImage
    /\ op = "none" /\ args = NoReturn /\ ret = NoReturn
    /\ FloodIdle
    /\ saves = 0
    /\ project = NoProject
    /\ files = NoFiles

\* make_background_transparent(image_path, ..., b, f): the image is read,
\* every pixel rewritten, and the image saved back to image_path.
UniformMatte ==
    /\ op = "none"
    /\ img # NoImage
    /\ \E t \in ThresholdPairs :
          /\ img' \in MatteOutcomes(img, t[1], t[2])
          /\ ret' = MatteStats(img, t[1], t[2])
          /\ args' = [kind |-> "matte", b |-> t[1], f |-> t[2]]
    /\ orig' = img
    /\ op' = "make_background_transparent"
    /\ saves' = saves + 1
    /\ UNCHANGED <<files, project>>
    /\ UNCHANGED <<whiteImg, blackImg, outImg, pc, pixels, local>>

\* difference_matte(white_bg_path, black_bg_path, output_path).
DifferenceMatte ==
    /\ op = "none"
    /\ whiteImg # NoImage /\ blackImg # NoImage
    /\ \E r \in DiffCall(whiteImg, blackImg, outImg) :
          outImg' = r.out /\ ret' = r.ret
    /\ args' = [kind |-> "diff"]
    /\ op' = "difference_matte"
    /\ UNCHANGED <<img, orig, whiteImg, blackImg, pc, pixels, local, saves, files, project>>

InitMatte == InitUniform \/ InitDiff
NextMatte == UniformMatte \/ DifferenceMatte
SpecMatte == InitMatte /\ [][NextMatte]_vars

----------------------------------------------------------------------------
(* UniformMatte and DifferenceMatte: the properties *)

UniformDone == op = "make_background_transparent"
DiffDone == op = "difference_matte" /\ ret.kind = "stats"

\* The squared distance of input pixel q to the detected background.
InD2(q) == ColorDist2(RGB(orig.px[q]), ret.actual_bg)

\* The squared distance between the two composites at q.
PixelDist2(q) == ColorDist2(RGB(whiteImg.px[q]), RGB(blackImg.px[q]))

Example4x4Matted ==
    [w |-> 4, h |-> 4,
     px |-> [q \in Cells(4, 4) |->
                IF q[1] \in {1, 2} /\ q[2] \in {1, 2}
                THEN <<10, 10, 10, 255>> ELSE <<255, 255, 255, 0>>]]

\* C1: after make_background_transparent every pixel at distance <= bg_threshold
\* from the detected background has alpha 0 and its input RGB, every pixel at
\* distance >= fg_threshold has alpha 255 and its input RGB; the 4x4 white image
\* with the 2x2 (10,10,10) centre gives, at thresholds 15 and 80, background
\* (255,255,255), border alpha 0, centre alpha 255 and centre colour (10,10,10).
C1_UniformMatteBuckets ==
    UniformDone =>
        /\ Pos(img) = Pos(orig)
        /\ \A q \in Pos(orig) :
              /\ InD2(q) <= Sq(args.b) => img.px[q] = WithAlpha(orig.px[q], 0)
              /\ InD2(q) >= Sq(args.f) => img.px[q] = WithAlpha(orig.px[q], 255)
        /\ (orig = Example4x4 /\ args.b = 15 /\ args.f = 80) =>
              ret.actual_bg = White /\ img = Example4x4Matted

C1_Witness ==
    /\ UniformDone /\ orig = Example4x4 /\ args.b = 15 /\ args.f = 80
    /\ \E q \in Pos(orig) : InD2(q) = 0 /\ Alpha(img.px[q]) = 0
    /\ \E q \in Pos(orig) : InD2(q) >= Sq(args.f) /\ Alpha(img.px[q]) = 255

\* C2: after make_background_transparent a pixel whose output alpha is 0 or
\* 255 carries exactly its input colour, also when it went through the edge
\* branch and its alpha rounded to 0 or to 255.
C2_ColourKeptAtFullAlpha ==
    UniformDone =>
        \A q \in Pos(orig) :
            Alpha(img.px[q]) \in {0, 255} => RGB(img.px[q]) = RGB(orig.px[q])

InEdge(q) == InD2(q) > Sq(args.b) /\ InD2(q) < Sq(args.f)

C2_Witness ==
    /\ UniformDone
    /\ \E q \in Pos(orig) : InEdge(q) /\ Alpha(img.px[q]) = 255
    /\ \E q \in Pos(orig) : InEdge(q) /\ Alpha(img.px[q]) = 0

\* C3: alpha is monotonic in the distance.  UniformMatte: of two pixels the one
\* farther from the detected background has the larger or equal alpha, and an
\* edge pixel's alpha is 255 * (d - bg_threshold) / (fg_threshold - bg_threshold)
\* rounded (within 1/2 of it).  DifferenceMatte: of two pixels the one with the
\* larger pixel_dist has the smaller or equal alpha.
C3_AlphaMonotonic ==
    /\ UniformDone =>
          /\ \A q1, q2 \in Pos(orig) :
                InD2(q1) <= InD2(q2) => Alpha(img.px[q1]) <= Alpha(img.px[q2])
          /\ \A q \in Pos(orig) :
                InEdge(q) =>
                    LET a == Alpha(img.px[q])
                        At(k) == k * (args.f - args.b) + 510 * args.b
                    IN  /\ Sq(At(2 * a + 1)) >= 260100 * InD2(q)
                        /\ a > 0 => Sq(At(2 * a - 1)) <= 260100 * InD2(q)
    /\ DiffDone =>
          \A q1, q2 \in Pos(outImg) :
              PixelDist2(q1) <= PixelDist2(q2)
                  => Alpha(outImg.px[q1]) >= Alpha(outImg.px[q2])

C3_Witness ==
    /\ UniformDone
    /\ \E q1, q2 \in Pos(orig) :
          /\ InEdge(q1) /\ InEdge(q2) /\ InD2(q1) < InD2(q2)
          /\ 0 < Alpha(img.px[q1]) /\ Alpha(img.px[q1]) < Alpha(img.px[q2])
          /\ Alpha(img.px[q2]) < 255

\* The corner pixels of the input, read at their coordinates.
InCorner(i) ==
    RGB(orig.px[CASE i = 1 -> <<0, 0>>
                  [] i = 2 -> <<orig.w - 1, 0>>
                  [] i = 3 -> <<0, orig.h - 1>>
                  [] i = 4 -> <<orig.w - 1, orig.h - 1>>])
CornerCount(c) == Cardinality({i \in 1 .. 4 : InCorner(i) = c})

\* C4: the background make_background_transparent reports is the colour that
\* occurs most often among the corner pixels (0,0), (w-1,0), (0,h-1), (w-1,h-1),
\* and among several colours of the highest count the first in that order.
C4_BackgroundIsPlurality ==
    UniformDone =>
        \E i \in 1 .. 4 :
            /\ InCorner(i) = ret.actual_bg
            /\ \A j \in 1 .. 4 : CornerCount(InCorner(j)) <= CornerCount(InCorner(i))
            /\ \A j \in 1 .. i - 1 : CornerCount(InCorner(j)) < CornerCount(InCorner(i))

C4_Witness ==
    /\ UniformDone
    /\ InCorner(1) = InCorner(4) /\ InCorner(2) = InCorner(3)
    /\ InCorner(1) # InCorner(2)
    /\ ret.actual_bg = InCorner(1)

\* C5: difference_matte on two images of different width or height raises the
\* dimension-mismatch ValueError, leaves output_path as it was and leaves both
\* inputs as they were.
C5_DimensionMismatch ==
    [][ ( /\ op = "none" /\ op' = "difference_matte"
          /\ <<whiteImg.w, whiteImg.h>> # <<blackImg.w, blackImg.h>> )
        => /\ ret' = DimensionMismatch
           /\ outImg' = outImg
           /\ whiteImg' = whiteImg /\ blackImg' = blackImg ]_vars

C5_Witness ==
    /\ op = "difference_matte" /\ ret.kind = "raise"
    /\ <<whiteImg.w, whiteImg.h>> # <<blackImg.w, blackImg.h>>
    /\ outImg = StaleOutput

\* C6: difference_matte gives a pixel whose two composites are equal alpha 255
\* and the black composite's RGB, and a pixel that is (255,255,255) over white
\* and (0,0,0) over black alpha 0.
C6_DifferenceExact ==
    DiffDone =>
        \A q \in Pos(outImg) :
            /\ RGB(whiteImg.px[q]) = RGB(blackImg.px[q])
                  => outImg.px[q] = WithAlpha(blackImg.px[q], 255)
            /\ (RGB(whiteImg.px[q]) = White /\ RGB(blackImg.px[q]) = Black)
                  => Alpha(outImg.px[q]) = 0

C6_Witness ==
    /\ DiffDone
    /\ \E q \in Pos(outImg) :
          /\ RGB(whiteImg.px[q]) = RGB(blackImg.px[q])
          /\ RGB(blackImg.px[q]) \notin {White, Black}
          /\ Alpha(outImg.px[q]) = 255
    /\ \E q \in Pos(outImg) :
          /\ RGB(whiteImg.px[q]) = White /\ RGB(blackImg.px[q]) = Black
          /\ Alpha(outImg.px[q]) = 0

----------------------------------------------------------------------------
(* chroma_key_transparency (ChromaKey) *)

\* The mutant of IsKeyBackground: the green key without its brightness test.
IsKeyBackgroundNoFloor(p, color) ==
    IF color = "green"
    THEN p[2] > p[1] + 30 /\ p[2] > p[3] + 30
    ELSE p[1] > 240 /\ p[2] > 240 /\ p[3] > 240

\* is_bg: any color other than "green" takes the white branch.
IsKeyBackground(p, color) ==
    IF color = "green"
    THEN p[2] > p[1] + 30 /\ p[2] > p[3] + 30 /\ p[2] > 100
    ELSE p[1] > 240 /\ p[2] > 240 /\ p[3] > 240

ChromaPixel(p, color) == IF IsKeyBackground(p, color) THEN WithAlpha(p, 0) ELSE p

ChromaImage(im, color) ==
    [im EXCEPT !.px = [q \in Pos(im) |-> ChromaPixel(im.px[q], color)]]

MaxChromaPixels == 2

\* Colours on both sides of each test of the two keys, opaque and half
\* transparent, and two pixels that are transparent already.
ChromaPixels ==
    { <<c[1], c[2], c[3], a>> :
        c \in { <<0, 255, 0>>, <<0, 150, 0>>, <<0, 90, 0>>, <<70, 101, 70>>,
                <<71, 101, 71>>, Dark, <<250, 250, 250>>, <<241, 241, 240>> },
        a \in {255, 128} }
    \cup { <<10, 10, 10, 0>>, <<0, 255, 0, 0>> }

ChromaImages == ImagesOver(ChromaPixels, MaxChromaPixels)

KeyColors == {"green", "white"}

InitChroma ==
    /\ img \in ChromaImages
    /\ orig = NoImage /\ op = "none" /\ args = NoReturn /\ ret = NoReturn
    /\ whiteImg = NoImage /\ blackImg = NoImage /\ outImg = NoImage
    /\ FloodIdle
    /\ saves = 0
    /\ project = NoProject
    /\ files = NoFiles

\* chroma_key_transparency(image_path, color): in place, returns None.
ChromaKey ==
    /\ op = "none"
    /\ img # NoImage
    /\ \E color \in KeyColors :
          /\ img' = ChromaImage(img, color)
          /\ args' = [kind |-> "chroma", color |-> color]
    /\ orig' = img
    /\ ret' = [kind |-> "return"]
    /\ op' = "chroma_key_transparency"
    /\ saves' = saves + 1
    /\ UNCHANGED <<files, project>>
    /\ UNCHANGED <<whiteImg, blackImg, outImg, pc, pixels, local>>

NextChroma == ChromaKey
SpecChroma == InitChroma /\ [][NextChroma]_vars

ChromaDone == op = "chroma_key_transparency"

\* The key predicate as the claim states it.
MatchesKey(p) ==
    \/ args.color = "green" /\ p[2] > p[1] + 30 /\ p[2] > p[3] + 30 /\ p[2] > 100
    \/ args.color = "white" /\ p[1] > 240 /\ p[2] > 240 /\ p[3] > 240

\* C7: after chroma_key_transparency a pixel that matches the key predicate
\* (green: G > R+30, G > B+30, G > 100; white: R, G, B > 240) has alpha 0 and its
\* RGB, every other pixel is exactly as it was; under the green key (0,255,0)
\* and (0,150,0) become transparent, (10,10,10) and (0,90,0) stay as they were.
C7_ChromaKeySelective ==
    ChromaDone =>
        /\ Pos(img) = Pos(orig)
        /\ \A q \in Pos(orig) :
              /\ MatchesKey(orig.px[q]) => img.px[q] = WithAlpha(orig.px[q], 0)
              /\ ~MatchesKey(orig.px[q]) => img.px[q] = orig.px[q]
              /\ (args.color = "green" /\ RGB(orig.px[q]) \in {<<0, 255, 0>>, <<0, 150, 0>>})
                    => Alpha(img.px[q]) = 0
              /\ (args.color = "green" /\ RGB(orig.px[q]) \in {<<10, 10, 10>>, <<0, 90, 0>>})
                    => img.px[q] = orig.px[q]

C7_Witness ==
    /\ ChromaDone /\ args.color = "green"
    /\ \E q \in Pos(orig) :
          orig.px[q] = <<0, 150, 0, 255>> /\ img.px[q] = <<0, 150, 0, 0>>
    /\ \E q \in Pos(orig) :
          orig.px[q] = <<0, 90, 0, 255>> /\ img.px[q] = <<0, 90, 0, 255>>

----------------------------------------------------------------------------
(* auto_remove_background (FloodErode) *)

\* The background is sampled at (5,5), (w-5,5), (5,h-5), (w-5,h-5).
FloodSamples(im) ==
    << RGB(im.px[<<5, 5>>]), RGB(im.px[<<im.w - 5, 5>>]),
       RGB(im.px[<<5, im.h - 5>>]), RGB(im.px[<<im.w - 5, im.h - 5>>]) >>

FloodBackground(im) == MostCommon(FloodSamples(im))

\* The mutant of Neighbours4: the flood fill also crosses diagonals.
Neighbours8(q) ==
    << <<q[1] + 1, q[2]>>, <<q[1] - 1, q[2]>>, <<q[1], q[2] + 1>>, <<q[1], q[2] - 1>>,
       <<q[1] + 1, q[2] + 1>>, <<q[1] - 1, q[2] - 1>>,
       <<q[1] - 1, q[2] + 1>>, <<q[1] + 1, q[2] - 1>> >>

\* What flood_fill pushes after a pixel it removes, in the order of the code.
Neighbours4(q) ==
    << <<q[1] + 1, q[2]>>, <<q[1] - 1, q[2]>>, <<q[1], q[2] + 1>>, <<q[1], q[2] - 1>> >>

\* The stack of flood_fill once the entries that are popped and skipped
\* (outside the image, or visited) are gone.
Live(im, stack, visited) ==
    LET keep == {i \in 1 .. Len(stack) :
                    stack[i] \in Pos(im) /\ stack[i] \notin visited}
    IN  IF keep = {} THEN <<>>
        ELSE SubSeq(stack, 1, CHOOSE i \in keep : \A j \in keep : j <= i)

\* The border pixels in the order the code starts a flood fill from them:
\* (x,0), (x,h-1) for each x, then (0,y), (w-1,y) for each y.
SeedOrder(w, h) ==
    [i \in 1 .. 2 * w |->
        IF i % 2 = 1 THEN <<(i - 1) \div 2, 0>> ELSE <<(i - 2) \div 2, h - 1>>]
    \o [i \in 1 .. 2 * h |->
        IF i % 2 = 1 THEN <<0, (i - 1) \div 2>> ELSE <<w - 1, (i - 2) \div 2>>]

\* The state of pass 1: visited and to_remove, shared by all the flood fills;
\* stack, the stack of the running flood_fill; seed, the index in seeds of the
\* start of the next one; visit_order, the pixels in the order they were marked
\* visited; pops, the number of stack.pop() made.
FloodStart ==
    [seed |-> 1, stack |-> <<>>, visited |-> {}, to_remove |-> {},
     visit_order |-> <<>>, pops |-> 0]

\* Nothing live is on the stack and no seed is left.
FloodFinished(im, seeds, fs) ==
    Live(im, fs.stack, fs.visited) = <<>> /\ fs.seed > Len(seeds)

\* One step of pass 1.  The running flood_fill pops down to the last live
\* entry, marks it visited and, when it is within tolerance, adds it to
\* to_remove and pushes its neighbours; when nothing live is left it pops the
\* rest of its stack and returns, and the next flood_fill starts.
FloodStep(im, bg, tol, seeds, fs) ==
    LET live == Live(im, fs.stack, fs.visited)
    IN  IF live = <<>>
        THEN [fs EXCEPT !.stack = <<seeds[fs.seed]>>,
                        !.seed = fs.seed + 1,
                        !.pops = fs.pops + Len(fs.stack)]
        ELSE LET q == live[Len(live)]
                 rest == SubSeq(live, 1, Len(live) - 1)
                 within == DistLT(ColorDist2(RGB(im.px[q]), bg), tol)
             IN  [fs EXCEPT !.stack = IF within THEN rest \o Neighbours4(q) ELSE rest,
                            !.visited = fs.visited \cup {q},
                            !.to_remove = IF within THEN fs.to_remove \cup {q}
                                          ELSE fs.to_remove,
                            !.visit_order = Append(fs.visit_order, q),
                            !.pops = fs.pops + Len(fs.stack) - Len(rest)]

\* The last flood_fill returns: what is left on its stack is popped.
FloodEnd(fs) == [fs EXCEPT !.stack = <<>>, !.pops = fs.pops + Len(fs.stack)]

\* The flood fills run to their end from the state fs.
RECURSIVE FloodFill(_, _, _, _, _)
FloodFill(im, bg, tol, seeds, fs) ==
    IF FloodFinished(im, seeds, fs) THEN FloodEnd(fs)
    ELSE FloodFill(im, bg, tol, seeds, FloodStep(im, bg, tol, seeds, fs))

\* Pass 1, lines 317-344: the state after all the flood fills.
FloodRun(im, bg, tol, seeds) == FloodFill(im, bg, tol, seeds, FloodStart)

\* Pass 1: to_remove after all the flood fills.
FloodPass(im, bg, tol, seeds) == FloodRun(im, bg, tol, seeds).to_remove

\* pixels[x, y] = (r, g, b, 0) for every (x, y) of S.
ClearAlpha(im, S) ==
    [im EXCEPT !.px = [q \in Pos(im) |->
                          IF q \in S THEN WithAlpha(im.px[q], 0) ELSE im.px[q]]]

\* dist < tolerance * 0.6 (the product is exact for the tolerances used).
TightLT(d2, tol) == tol > 0 /\ 25 * d2 < 9 * tol * tol

\* The mutant of SweepPixel: the alpha test is inverted, so that the sweep
\* passes over the pixels that are still visible.
SweepPixelSkipsVisible(p, bg, tol) ==
    IF Alpha(p) # 0 THEN p
    ELSE IF TightLT(ColorDist2(RGB(p), bg), tol) THEN WithAlpha(p, 0)
    ELSE p

\* Pass 2, one pixel.
SweepPixel(p, bg, tol) ==
    IF Alpha(p) = 0 THEN p
    ELSE IF TightLT(ColorDist2(RGB(p), bg), tol) THEN WithAlpha(p, 0)
    ELSE p

SweepImage(im, bg, tol) ==
    [im EXCEPT !.px = [q \in Pos(im) |-> SweepPixel(im.px[q], bg, tol)]]

\* The mutant of BgIsGreen: the hue cleanup runs for every background.
BgIsGreenAlways(bg) == TRUE

\* bg_is_green
BgIsGreen(bg) == bg[2] > bg[1] + 50 /\ bg[2] > bg[3] + 50

\* Pass 2b, one pixel.
HuePixel(p) ==
    IF Alpha(p) = 0 THEN p
    ELSE IF p[2] > p[1] /\ p[2] > p[3] /\ p[2] > 80 THEN WithAlpha(p, 0)
    ELSE p

HueImage(im) == [im EXCEPT !.px = [q \in Pos(im) |-> HuePixel(im.px[q])]]

\* The eight neighbours of q inside the image.
Around(im, q) ==
    {n \in Pos(im) : n # q /\ n[1] - q[1] \in {-1, 0, 1} /\ n[2] - q[2] \in {-1, 0, 1}}

\* The mutant of ErodeList: the test of the pixel's own alpha is missing.
ErodeListAnyAlpha(im, bg, tol) ==
    {q \in Pos(im) :
        /\ DistLT(ColorDist2(RGB(im.px[q]), bg), tol)
        /\ \E n \in Around(im, q) : Alpha(im.px[n]) = 0}

\* The mutant of ErodeList: the buffer is changed while it is scanned, so that
\* a pixel cleared in a round lets its neighbours be cleared in the same round.
ErodeListCascading(im, bg, tol) ==
    LET List(b) == {q \in Pos(b) :
                       /\ Alpha(b.px[q]) # 0
                       /\ DistLT(ColorDist2(RGB(b.px[q]), bg), tol)
                       /\ \E n \in Around(b, q) : Alpha(b.px[n]) = 0}
        first == List(im)
        cleared == [im EXCEPT !.px = [q \in Pos(im) |->
                       IF q \in first THEN WithAlpha(im.px[q], 0) ELSE im.px[q]]]
    IN  first \cup List(cleared)

\* Pass 3: the erode_list of one round, read from the buffer before any pixel
\* of the round is changed.
ErodeList(im, bg, tol) ==
    {q \in Pos(im) :
        /\ Alpha(im.px[q]) # 0
        /\ DistLT(ColorDist2(RGB(im.px[q]), bg), tol)
        /\ \E n \in Around(im, q) : Alpha(im.px[n]) = 0}

\* Input images of auto_remove_background: a Side x Side canvas of one base
\* colour carrying a plus-shaped cluster of cells; the first NVarCells cells of
\* the cluster take any colour of the alphabet, the others are dark.
Side == 6
NVarCells == 2
Green == <<0, 255, 0>>
DarkGreen == <<20, 120, 20>>
DimGreen == <<10, 60, 10>>
Yellow == <<200, 200, 0>>
FloodBases == {White, Green}

\* A colour at distance 48 from the base colour.
Near(base) == IF base = White THEN <<255, 255, 207>> ELSE <<0, 207, 0>>

FloodAlphabet(base) == {base, Near(base), Yellow, DarkGreen, DimGreen}

Cluster == << <<3, 2>>, <<2, 2>>, <<4, 2>>, <<3, 1>>, <<3, 3>> >>

ClusterIndex(q) == CHOOSE i \in 1 .. Len(Cluster) : Cluster[i] = q

FloodImage(base, f) ==
    [w |-> Side, h |-> Side,
     px |-> [q \in Cells(Side, Side) |->
                LET c == IF \E i \in 1 .. Len(Cluster) : Cluster[i] = q
                         THEN IF ClusterIndex(q) \in DOMAIN f
                              THEN f[ClusterIndex(q)] ELSE Dark
                         ELSE base
                IN  <<c[1], c[2], c[3], 255>>]]

\* A dark canvas whose four sample points are white, with a diagonal of cells
\* leading away from the sample point (1,1): the cells of Chain take any
\* colour of the alphabet.
Chain == << <<2, 2>>, <<3, 3>> >>

SamplePoints == {<<5, 5>>, <<Side - 5, 5>>, <<5, Side - 5>>, <<Side - 5, Side - 5>>}

ChainImage(f) ==
    [w |-> Side, h |-> Side,
     px |-> [q \in Cells(Side, Side) |->
                LET c == IF q \in SamplePoints THEN White
                         ELSE IF \E i \in DOMAIN f : Chain[i] = q
                         THEN f[CHOOSE i \in DOMAIN f : Chain[i] = q]
                         ELSE Dark
                IN  <<c[1], c[2], c[3], 255>>]]

ChainImages == {ChainImage(f) : f \in [1 .. Len(Chain) -> FloodAlphabet(White)]}

\* An image without a visible pixel.
ClearImage == [w |-> Side, h |-> Side,
               px |-> [q \in Cells(Side, Side) |-> <<255, 255, 255, 0>>]]

FloodImages ==
    UNION {{FloodImage(base, f) :
              f \in [1 .. Min(NVarCells, Len(Cluster)) -> FloodAlphabet(base)]} :
           base \in FloodBases}
    \cup ChainImages \cup {ClearImage}

\* An image too small to hold the sample points.
SmallImage == [w |-> Side - 1, h |-> Side - 1,
               px |-> [q \in Cells(Side - 1, Side - 1) |-> <<255, 255, 255, 255>>]]

FloodArgs ==
    {[tolerance |-> 80, erosion_passes |-> 100],
     [tolerance |-> 80, erosion_passes |-> 0],
     [tolerance |-> 50, erosion_passes |-> 1],
     [tolerance |-> 0, erosion_passes |-> 2]}

InitFlood ==
    /\ img \in FloodImages \cup {SmallImage}
    /\ orig = NoImage /\ op = "none" /\ args = NoReturn /\ ret = NoReturn
    /\ whiteImg = NoImage /\ blackImg = NoImage /\ outImg = NoImage
    /\ FloodIdle
    /\ saves = 0
    /\ project = NoProject
    /\ files = NoFiles

\* auto_remove_background(image_path, tolerance, erosion_passes): the image is
\* loaded and the background sampled; reading a sample point outside the image
\* raises IndexError before anything is written.
FloodLoad ==
    /\ op = "none" /\ pc = "idle"
    /\ img # NoImage
    /\ \E a \in FloodArgs :
          /\ args' = [kind |-> "flood", tolerance |-> a.tolerance,
                      erosion_passes |-> a.erosion_passes]
          /\ IF img.w <= 5 \/ img.h <= 5
             THEN /\ ret' = [kind |-> "raise", error |-> "IndexError"]
                  /\ op' = "auto_remove_background"
                  /\ UNCHANGED <<pc, pixels, local>>
             ELSE /\ pixels' = img
                  /\ local' = [kind |-> "flood",
                               bg_color |-> FloodBackground(img),
                               seed |-> FloodStart.seed,
                               stack |-> FloodStart.stack,
                               visited |-> FloodStart.visited,
                               to_remove |-> FloodStart.to_remove,
                               visit_order |-> FloodStart.visit_order,
                               pops |-> FloodStart.pops,
                               bg_is_green |-> FALSE,
                               rounds |-> 0,
                               iterations |-> 0]
                  /\ pc' = "pass1"
                  /\ UNCHANGED <<op, ret>>
    /\ orig' = img
    /\ UNCHANGED <<img, whiteImg, blackImg, outImg, saves, files, project>>

\* Pass 1, one step: a step of the flood fills from the border pixels or,
\* when the last flood_fill has returned, alpha 0 on to_remove.
FloodPass1 ==
    /\ pc = "pass1"
    /\ LET seeds == SeedOrder(pixels.w, pixels.h)
       IN  IF FloodFinished(pixels, seeds, local)
           THEN /\ local' = FloodEnd(local)
                /\ pixels' = ClearAlpha(pixels, local.to_remove)
                /\ pc' = "pass2"
           ELSE /\ local' = FloodStep(pixels, local.bg_color, args.tolerance,
                                      seeds, local)
                /\ UNCHANGED <<pixels, pc>>
    /\ UNCHANGED <<img, orig, op, args, ret, whiteImg, blackImg, outImg, saves, files, project>>

\* Pass 2: every visible pixel closer than tolerance * 0.6 becomes transparent.
TightSweep ==
    /\ pc = "pass2"
    /\ pixels' = SweepImage(pixels, local.bg_color, args.tolerance)
    /\ pc' = "pass2b"
    /\ UNCHANGED <<img, orig, op, args, ret, whiteImg, blackImg, outImg, local,
                   saves, files, project>>

\* Pass 2b: the hue cleanup, for a green background only.
HueCleanup ==
    /\ pc = "pass2b"
    /\ local' = [local EXCEPT !.bg_is_green = BgIsGreen(local.bg_color)]
    /\ pixels' = IF BgIsGreen(local.bg_color) THEN HueImage(pixels) ELSE pixels
    /\ pc' = "pass3"
    /\ UNCHANGED <<img, orig, op, args, ret, whiteImg, blackImg, outImg, saves, files, project>>

\* Pass 3, one step of the loop: it is left when erosion_passes iterations
\* were made; else an iteration computes the erode_list, breaks when the list
\* is empty and clears the alpha of the list otherwise.  iterations counts the
\* iterations entered, rounds those that cleared pixels.
ErodeRound ==
    /\ pc = "pass3"
    /\ LET E == ErodeList(pixels, local.bg_color, args.tolerance)
       IN  IF local.iterations >= args.erosion_passes
           THEN pc' = "save" /\ UNCHANGED <<pixels, local>>
           ELSE IF E = {}
           THEN /\ pc' = "save"
                /\ local' = [local EXCEPT !.iterations = local.iterations + 1]
                /\ UNCHANGED pixels
           ELSE /\ pixels' = ClearAlpha(pixels, E)
                /\ local' = [local EXCEPT !.rounds = local.rounds + 1,
                                          !.iterations = local.iterations + 1]
                /\ pc' = "pass3"
    /\ UNCHANGED <<img, orig, op, args, ret, whiteImg, blackImg, outImg, saves, files, project>>

\* The buffer is saved over the input and bg_color returned.
FloodSave ==
    /\ pc = "save"
    /\ img' = pixels
    /\ ret' = [kind |-> "return", value |-> local.bg_color]
    /\ op' = "auto_remove_background"
    /\ pc' = "done"
    /\ saves' = saves + 1
    /\ UNCHANGED <<files, project>>
    /\ UNCHANGED <<orig, args, whiteImg, blackImg, outImg, pixels, local>>

NextFlood ==
    \/ FloodLoad
    \/ FloodPass1
    \/ TightSweep
    \/ HueCleanup
    \/ ErodeRound
    \/ FloodSave

SpecFlood == InitFlood /\ [][NextFlood]_vars

\* The call is one sequential run: a step that can be taken is taken.  The
\* runs are those on the dark canvases, on the image without a visible pixel
\* and on the image that is too small.
InitFloodLive ==
    /\ img \in ChainImages \cup {ClearImage, SmallImage}
    /\ orig = NoImage /\ op = "none" /\ args = NoReturn /\ ret = NoReturn
    /\ whiteImg = NoImage /\ blackImg = NoImage /\ outImg = NoImage
    /\ FloodIdle
    /\ saves = 0
    /\ project = NoProject
    /\ files = NoFiles

SpecFloodLive == InitFloodLive /\ [][NextFlood]_vars /\ WF_vars(NextFlood)

----------------------------------------------------------------------------
(* Claims about auto_remove_background *)

FloodDone == op = "auto_remove_background" /\ ret.kind = "return"

\* Squared distance of the input pixel at q to the detected background.
FloodDist2(q) == ColorDist2(RGB(orig.px[q]), local.bg_color)

BelowTolerance(q) ==
    args.tolerance > 0 /\ FloodDist2(q) < args.tolerance * args.tolerance

OnBorder(q) ==
    q[1] = 0 \/ q[2] = 0 \/ q[1] = orig.w - 1 \/ q[2] = orig.h - 1

Adjacent4(p, q) ==
    \/ p[1] = q[1] /\ (p[2] = q[2] + 1 \/ p[2] = q[2] - 1)
    \/ p[2] = q[2] /\ (p[1] = q[1] + 1 \/ p[1] = q[1] - 1)

\* The least set holding S and closed under 4-adjacency inside Ok.
RECURSIVE Closure4(_, _)
Closure4(S, Ok) ==
    LET N == {q \in Ok \ S : \E p \in S : Adjacent4(p, q)}
    IN  IF N = {} THEN S ELSE Closure4(S \cup N, Ok)

\* The pixels below tolerance joined to the border by a 4-connected path of
\* pixels below tolerance.
BorderConnected ==
    LET Ok == {q \in Pos(orig) : BelowTolerance(q)}
    IN  Closure4({q \in Ok : OnBorder(q)}, Ok)

Reversed(s) == [i \in 1 .. Len(s) |-> s[Len(s) + 1 - i]]

Rotated(s, k) == [i \in 1 .. Len(s) |-> s[((i + k - 1) % Len(s)) + 1]]

OtherSeedOrders ==
    LET s == SeedOrder(orig.w, orig.h)
    IN  {Reversed(s), Rotated(s, orig.w), Rotated(Reversed(s), orig.w + orig.h)}

\* C8: after the flood fill, the pixels marked by pass 1 are exactly those
\* below tolerance that a 4-connected path of below-tolerance pixels joins to
\* the border; they have alpha 0 and their colour, every other pixel is as in
\* the input; seeding the border in another order marks the same set.
C8_FloodFillReach ==
    pc = "pass2" =>
        LET joined == BorderConnected
        IN  /\ local.to_remove = joined
            /\ pixels.px = [q \in Pos(orig) |->
                               IF q \in joined
                               THEN <<orig.px[q][1], orig.px[q][2], orig.px[q][3], 0>>
                               ELSE orig.px[q]]
            /\ \A s \in OtherSeedOrders :
                  FloodPass(orig, local.bg_color, args.tolerance, s) = joined

\* Pass 1 has run, it reached a pixel that is not on the border, and a pixel
\* below tolerance is cut off from the border.
C8_Witness ==
    /\ pc = "pass2"
    /\ \E q \in local.to_remove : ~OnBorder(q)
    /\ \E q \in Pos(orig) : BelowTolerance(q) /\ q \notin local.to_remove

\* C9: in the image that auto_remove_background saves, no pixel with alpha > 0
\* is closer to the returned background colour than 0.6 * tolerance.
C9_TightSweepComplete ==
    FloodDone =>
        \A q \in Pos(img) :
            Alpha(img.px[q]) > 0 =>
                25 * ColorDist2(RGB(img.px[q]), ret.value)
                    >= 9 * args.tolerance * args.tolerance

\* With no erosion round allowed, a pixel the flood fill did not reach is
\* transparent in the saved image because it is closer than 0.6 * tolerance.
C9_Witness ==
    /\ FloodDone
    /\ args.erosion_passes = 0
    /\ \E q \in Pos(orig) :
          /\ q \notin local.to_remove
          /\ Alpha(orig.px[q]) = 255
          /\ 25 * FloodDist2(q) < 9 * args.tolerance * args.tolerance
          /\ Alpha(img.px[q]) = 0

GreenDominant(c) == c[2] > c[1] + 50 /\ c[2] > c[3] + 50

GreenIsMaximum(p) == p[2] > p[1] /\ p[2] > p[3]

\* C10: the hue cleanup runs exactly when the detected background is
\* green-dominant; a visible pixel at distance >= tolerance from the
\* background is transparent in the saved image when the background is
\* green-dominant and green is the pixel's greatest channel and above 80, and
\* is saved unchanged otherwise.
C10_HueCleanup ==
    FloodDone =>
        /\ local.bg_is_green = GreenDominant(ret.value)
        /\ \A q \in Pos(orig) :
              (~BelowTolerance(q) /\ Alpha(orig.px[q]) # 0) =>
                  IF /\ GreenDominant(ret.value)
                     /\ GreenIsMaximum(orig.px[q])
                     /\ orig.px[q][2] > 80
                  THEN img.px[q] = <<orig.px[q][1], orig.px[q][2], orig.px[q][3], 0>>
                  ELSE img.px[q] = orig.px[q]

\* A green-dominant background, and the hue cleanup removed a pixel at distance
\* >= tolerance while it kept one whose green is not above 80.
C10_Witness ==
    /\ FloodDone
    /\ GreenDominant(ret.value)
    /\ \E q \in Pos(orig) :
          /\ ~BelowTolerance(q)
          /\ GreenIsMaximum(orig.px[q]) /\ orig.px[q][2] > 80
          /\ Alpha(orig.px[q]) = 255 /\ Alpha(img.px[q]) = 0
    /\ \E q \in Pos(orig) :
          /\ GreenIsMaximum(orig.px[q]) /\ orig.px[q][2] <= 80
          /\ Alpha(img.px[q]) = 255

Adjacent8(p, q) ==
    /\ p # q
    /\ p[1] - q[1] \in {-1, 0, 1}
    /\ p[2] - q[2] \in {-1, 0, 1}

\* The pixels of buffer b that are not transparent, are closer to the
\* background than tolerance and have a transparent pixel among their eight
\* neighbours.
Fringe(b) ==
    {q \in Pos(b) :
        /\ Alpha(b.px[q]) # 0
        /\ args.tolerance > 0
        /\ ColorDist2(RGB(b.px[q]), local.bg_color) < args.tolerance * args.tolerance
        /\ \E n \in Pos(b) : Adjacent8(n, q) /\ Alpha(b.px[n]) = 0}

\* C11: an erosion round clears the alpha of exactly the fringe of the buffer
\* as it was when the round began and changes nothing else; the loop is left
\* without a change to the buffer; and when it is left with rounds to spare,
\* the saved image has no fringe.
C11_ErosionRound ==
    [][/\ (pc = "pass3" /\ pc' = "pass3") =>
              pixels'.px = [q \in Pos(pixels) |->
                              IF q \in Fringe(pixels)
                              THEN <<pixels.px[q][1], pixels.px[q][2],
                                     pixels.px[q][3], 0>>
                              ELSE pixels.px[q]]
       /\ (pc = "pass3" /\ pc' = "save") =>
              /\ pixels' = pixels
              /\ local.rounds < args.erosion_passes => Fringe(pixels) = {}
       /\ (pc = "save" /\ pc' = "done") =>
              /\ img' = pixels
              /\ local.rounds < args.erosion_passes => Fringe(img') = {}]_vars

\* Two erosion rounds were made, and the second cleared a pixel that had no
\* transparent neighbour when the first began.
C11_Witness ==
    /\ pc = "pass3"
    /\ local.rounds = 2
    /\ \E q \in Pos(pixels) :
          /\ Alpha(pixels.px[q]) = 0
          /\ Alpha(orig.px[q]) = 255
          /\ q \notin local.to_remove
          /\ \A n \in Pos(orig) :
                Adjacent8(n, q) =>
                    ~DistLT(ColorDist2(RGB(orig.px[n]), local.bg_color), args.tolerance)
                    \/ n \in Range(Chain)

\* The input has no visible pixel, or none closer to the background than
\* tolerance.
NothingToErode ==
    \/ \A q \in Pos(orig) : Alpha(orig.px[q]) = 0
    \/ \A q \in Pos(orig) : ~BelowTolerance(q)

\* C12: every call ends (by returning or raising).  The flood fill marks no
\* pixel visited twice and pops all it pushed (one entry per seed, four per
\* removed pixel).  The erosion loop makes at most erosion_passes iterations,
\* every iteration but the last changes the buffer, and an iteration that
\* finds nothing to clear is the last.  With no visible pixel, or none within
\* tolerance, the loop is left at once with the buffer unchanged.
C12_Terminates ==
    /\ <>(op = "auto_remove_background")
    /\ [](pc \in {"pass2", "pass2b", "pass3", "save", "done"} =>
            /\ Cardinality(Range(local.visit_order)) = Len(local.visit_order)
            /\ Range(local.visit_order) \subseteq Pos(orig)
            /\ local.pops = 2 * orig.w + 2 * orig.h + 4 * Cardinality(local.to_remove)
            /\ local.rounds <= local.iterations
            /\ local.iterations <= args.erosion_passes
            /\ local.iterations <= local.rounds + 1)
    /\ [][/\ (pc = "pass3" /\ pc' = "pass3") =>
                /\ pixels' # pixels
                /\ local'.iterations = local.iterations + 1
                /\ local'.rounds = local.iterations + 1
          /\ (pc = "pass3" /\ pc' = "save") => pixels' = pixels
          /\ (pc = "pass3" /\ NothingToErode) =>
                /\ pc' = "save"
                /\ pixels' = pixels
                /\ local'.iterations <= 1
                /\ local'.rounds = 0]_vars

\* A call has returned after two erosion rounds that cleared pixels and a
\* third iteration that found none.
C12_Witness ==
    /\ FloodDone
    /\ local.rounds = 2
    /\ local.iterations = 3
    /\ Len(local.visit_order) > 0

----------------------------------------------------------------------------
(* checkerboard_to_transparent (CheckerboardDetect) *)

SampleSize == 64
SampleOffset == 5

\* The cells x = cx + dx, y = cy + dy (dy the outer loop, dx the inner one,
\* both over range(sample_size)) that lie inside a w x h image.
RegionCells(w, h, cx, cy) ==
    LET x0 == Max(cx, 0)
        x1 == Min(cx + SampleSize - 1, w - 1)
        y0 == Max(cy, 0)
        y1 == Min(cy + SampleSize - 1, h - 1)
        nx == x1 - x0 + 1
        ny == y1 - y0 + 1
    IN  IF nx <= 0 \/ ny <= 0 THEN <<>>
        ELSE [k \in 1 .. nx * ny |-> <<x0 + ((k - 1) % nx), y0 + ((k - 1) \div nx)>>]

\* The sampled cells, in the order sampled; the regions of a small image
\* overlap, and a cell is then sampled more than once.
CornerCells(w, h) ==
    RegionCells(w, h, SampleOffset, SampleOffset)
    \o RegionCells(w, h, w - SampleSize - SampleOffset, SampleOffset)
    \o RegionCells(w, h, SampleOffset, h - SampleSize - SampleOffset)
    \o RegionCells(w, h, w - SampleSize - SampleOffset, h - SampleSize - SampleOffset)

\* corner_samples
CornerSamples(im) ==
    LET cells == CornerCells(im.w, im.h)
    IN  [k \in 1 .. Len(cells) |-> RGB(im.px[cells[k]])]

Without(seq, c) == SelectSeq(seq, LAMBDA e : e # c)

NoPattern == [found |-> FALSE]

\* The mutant of DetectPattern: the presence of each colour is not tested.
DetectPatternCombinedOnly(samples) ==
    IF samples = <<>> \/ Without(samples, MostCommon(samples)) = <<>>
    THEN NoPattern
    ELSE LET color1 == MostCommon(samples)
             color2 == MostCommon(Without(samples, color1))
         IN  IF 5 * (CountIn(samples, color1) + CountIn(samples, color2))
                    < 4 * Len(samples)
             THEN NoPattern
             ELSE [found |-> TRUE, colors |-> <<color1, color2>>]

\* Lines 467-487: most_common(2) of the samples (the order of Counter: by
\* count, the first encountered first among equal counts) and the tests of
\* presence: count < total * 0.25 and (count1 + count2) / total < 0.80.
DetectPattern(samples) ==
    IF samples = <<>> \/ Without(samples, MostCommon(samples)) = <<>>
    THEN NoPattern
    ELSE LET color1 == MostCommon(samples)
             color2 == MostCommon(Without(samples, color1))
             count1 == CountIn(samples, color1)
             count2 == CountIn(samples, color2)
             total == Len(samples)
         IN  IF 4 * count1 < total \/ 4 * count2 < total THEN NoPattern
             ELSE IF 5 * (count1 + count2) < 4 * total THEN NoPattern
             ELSE [found |-> TRUE, colors |-> <<color1, color2>>]

\* The mutant of CheckerPixel: only the first colour is matched.
CheckerPixelFirstOnly(p, colors, tol) ==
    IF DistLT(ColorDist2(RGB(p), colors[1]), tol) THEN WithAlpha(p, 0) ELSE p

\* Lines 492-499, one pixel.
CheckerPixel(p, colors, tol) ==
    IF \/ DistLT(ColorDist2(RGB(p), colors[1]), tol)
       \/ DistLT(ColorDist2(RGB(p), colors[2]), tol)
    THEN WithAlpha(p, 0)
    ELSE p

CheckerImage(im, colors, tol) ==
    [im EXCEPT !.px = [q \in Pos(im) |-> CheckerPixel(im.px[q], colors, tol)]]

\* The mutant of CheckerCall: the image is saved before the pattern is tested.
CheckerCallSavesAlways(im, tol) ==
    LET found == DetectPattern(CornerSamples(im))
    IN  IF found = NoPattern
        THEN [out |-> im, saved |-> 1, ret |-> [kind |-> "return", found |-> FALSE]]
        ELSE [out |-> CheckerImage(im, found.colors, tol), saved |-> 1,
              ret |-> [kind |-> "return", found |-> TRUE, value |-> found.colors]]

\* The call as a whole: what image_path holds afterwards, how many times it
\* was written, and what is returned (found = FALSE: None).
CheckerCall(im, tol) ==
    LET found == DetectPattern(CornerSamples(im))
    IN  IF found = NoPattern
        THEN [out |-> im, saved |-> 0, ret |-> [kind |-> "return", found |-> FALSE]]
        ELSE [out |-> CheckerImage(im, found.colors, tol), saved |-> 1,
              ret |-> [kind |-> "return", found |-> TRUE, value |-> found.colors]]

\* Input images of checkerboard_to_transparent: CheckWidth x CheckHeight, the
\* sampled cells (in the order first sampled) coloured in three runs, of Grey,
\* of White and of Dark, the other cells taken in turn from InnerPixels.
CheckWidth == SampleOffset + 1
CheckHeight == 10
Grey == <<204, 204, 204>>

\* Beside the three sampled colours: colours at distance 24 and 30 from Grey
\* and 25 from White, and a half-transparent Grey.
InnerPixels ==
    << <<204, 204, 204, 255>>, <<204, 204, 180, 255>>, <<204, 204, 174, 255>>,
       <<255, 255, 255, 255>>, <<255, 255, 230, 255>>, <<10, 10, 10, 255>>,
       <<204, 204, 204, 128>>, <<200, 30, 30, 255>>, <<200, 30, 30, 0>> >>

\* The index of the first occurrence of c in seq.
FirstIndex(seq, c) == CHOOSE i \in 1 .. Len(seq) : seq[i] = c /\ \A j \in 1 .. i - 1 : seq[j] # c

\* How many distinct cells are sampled before cell c is.
SampleRank(cells, c) ==
    Cardinality({d \in Range(cells) : FirstIndex(cells, d) < FirstIndex(cells, c)})

CheckerInput(w, h, a, b) ==
    LET cells == CornerCells(w, h)
    IN  [w |-> w, h |-> h,
         px |-> [q \in Cells(w, h) |->
                    IF q \in Range(cells)
                    THEN LET c == IF SampleRank(cells, q) < a THEN Grey
                                  ELSE IF SampleRank(cells, q) < a + b THEN White
                                  ELSE Dark
                         IN  <<c[1], c[2], c[3], 255>>
                    ELSE InnerPixels[((q[1] + w * q[2]) % Len(InnerPixels)) + 1]]]

CheckerInputs ==
    LET n == Cardinality(Range(CornerCells(CheckWidth, CheckHeight)))
    IN  {CheckerInput(CheckWidth, CheckHeight, a, b) :
            a \in 0 .. n, b \in 0 .. n} \cup {SmallImage}

CheckTolerances == {30, 24}

InitChecker ==
    /\ img \in CheckerInputs
    /\ orig = NoImage /\ op = "none" /\ args = NoReturn /\ ret = NoReturn
    /\ whiteImg = NoImage /\ blackImg = NoImage /\ outImg = NoImage
    /\ FloodIdle
    /\ saves = 0
    /\ project = NoProject
    /\ files = NoFiles

\* checkerboard_to_transparent(image_path, tolerance).
CheckerboardDetect ==
    /\ op = "none"
    /\ img # NoImage
    /\ \E tol \in CheckTolerances :
          LET r == CheckerCall(img, tol)
          IN  /\ img' = r.out
              /\ ret' = r.ret
              /\ saves' = saves + r.saved
              /\ UNCHANGED <<files, project>>
              /\ args' = [kind |-> "checkerboard", tolerance |-> tol]
    /\ orig' = img
    /\ op' = "checkerboard_to_transparent"
    /\ UNCHANGED <<whiteImg, blackImg, outImg, pc, pixels, local>>

NextChecker == CheckerboardDetect
SpecChecker == InitChecker /\ [][NextChecker]_vars

----------------------------------------------------------------------------
(* Claims about checkerboard_to_transparent *)

CheckerDone == op = "checkerboard_to_transparent"

\* How many of the samples taken from the input have colour c.
Sampled(c) == CountIn(CornerSamples(orig), c)

SampledTotal == Len(CornerSamples(orig))

SampledColors == Range(CornerSamples(orig))

\* c1 and c2 are the two most frequent sampled colours, c1 at least as
\* frequent as c2.
TopTwo(c1, c2) ==
    /\ c1 \in SampledColors /\ c2 \in SampledColors /\ c1 # c2
    /\ Sampled(c1) >= Sampled(c2)
    /\ \A c \in SampledColors \ {c1, c2} : Sampled(c) <= Sampled(c2)

\* Each of the two covers at least 25% of the samples, both at least 80%.
Covering(c1, c2) ==
    /\ 4 * Sampled(c1) >= SampledTotal
    /\ 4 * Sampled(c2) >= SampledTotal
    /\ 5 * (Sampled(c1) + Sampled(c2)) >= 4 * SampledTotal

C14_NoPatternNoChange ==
    CheckerDone =>
        /\ Cardinality(SampledColors) = 1 =>
               ret = [kind |-> "return", found |-> FALSE]
        /\ (ret.kind = "return" /\ ~ret.found) => img = orig /\ saves = 0

\* None was returned for an image whose samples have one colour.
C14_Witness ==
    /\ CheckerDone
    /\ Cardinality(SampledColors) = 1
    /\ SampledTotal > 1
    /\ ~ret.found

\* p is closer than tolerance to colour c.
CloserThanTolerance(p, c) ==
    /\ args.tolerance > 0
    /\ ColorDist2(<<p[1], p[2], p[3]>>, c) < args.tolerance * args.tolerance

\* C15: with a pattern (c1, c2) accepted, a pixel closer than tolerance to c1
\* or to c2 gets alpha 0 and keeps its colour, every other pixel is unchanged,
\* and (c1, c2) is returned, c1 sampled at least as often as c2.
C15_CheckerRemoval ==
    (CheckerDone /\ ret.found) =>
        /\ Sampled(ret.value[1]) >= Sampled(ret.value[2])
        /\ img.w = orig.w /\ img.h = orig.h
        /\ \A q \in Pos(orig) :
              img.px[q] = IF \/ CloserThanTolerance(orig.px[q], ret.value[1])
                             \/ CloserThanTolerance(orig.px[q], ret.value[2])
                          THEN <<orig.px[q][1], orig.px[q][2], orig.px[q][3], 0>>
                          ELSE orig.px[q]

\* A pattern was accepted; a pixel near the second colour only was cleared,
\* and a visible pixel at distance exactly tolerance from a colour was kept.
C15_Witness ==
    /\ CheckerDone
    /\ ret.found
    /\ \E q \in Pos(orig) :
          /\ ~CloserThanTolerance(orig.px[q], ret.value[1])
          /\ RGB(orig.px[q]) # ret.value[2]
          /\ Alpha(orig.px[q]) = 255 /\ Alpha(img.px[q]) = 0
    /\ \E q \in Pos(orig) :
          /\ \E i \in {1, 2} :
                ColorDist2(RGB(orig.px[q]), ret.value[i])
                    = args.tolerance * args.tolerance
          /\ img.px[q] = orig.px[q] /\ Alpha(orig.px[q]) = 255

----------------------------------------------------------------------------
(* make_background_transparent at the noise floor of the edge band *)

EdgeSpread == 2

MidGrey == <<128, 128, 128>>

\* Steps away from the background: the shortest ones (distance 1 is one
\* hundredth of a band of width 100), those around the noise floor of the
\* default band (squared distance 244 is below it, 245 above), and longer ones.
EdgeOffsets ==
    ({<<i, j, 0>> : i, j \in 0 .. EdgeSpread} \ {<<0, 0, 0>>})
        \cup {<<15, 1, 0>>, <<15, 3, 3>>, <<15, 4, 2>>, <<12, 10, 1>>,
              <<30, 20, 10>>, <<40, 40, 40>>, <<45, 45, 45>>}

Shift(bg, s, o) == <<bg[1] + s * o[1], bg[2] + s * o[2], bg[3] + s * o[3]>>

EdgeColours(bg) ==
    {c \in {Shift(bg, s, o) : s \in {-1, 1}, o \in EdgeOffsets} :
        \A k \in 1 .. 3 : c[k] \in 0 .. 255}

\* A column of three pixels: the background on top (the colour the corner
\* count returns) and two pixels near it.
EdgeImages ==
    UNION { { [w |-> 1, h |-> 3,
               px |-> [q \in Cells(1, 3) |->
                          IF q[2] = 0 THEN WithAlpha(bg, 255)
                          ELSE IF q[2] = 1 THEN WithAlpha(c1, 255)
                          ELSE WithAlpha(c2, 255)]] :
              c1 \in EdgeColours(bg), c2 \in EdgeColours(bg) } :
            bg \in {White, MidGrey} }

\* The default thresholds, and a band of width 100 starting at 0.
EdgeThresholdPairs == {<<AlphaBgThreshold, AlphaFgThreshold>>, <<0, 100>>}

InitEdge ==
    /\ img \in EdgeImages
    /\ orig = NoImage /\ op = "none" /\ args = NoReturn /\ ret = NoReturn
    /\ whiteImg = NoImage /\ blackImg = NoImage /\ outImg = NoImage
    /\ FloodIdle
    /\ saves = 0
    /\ project = NoProject
    /\ files = NoFiles

\* make_background_transparent(image_path, ..., b, f) with the settings of
\* EdgeThresholdPairs.
EdgeMatte ==
    /\ op = "none"
    /\ img # NoImage
    /\ \E t \in EdgeThresholdPairs :
          /\ img' \in MatteOutcomes(img, t[1], t[2])
          /\ ret' = MatteStats(img, t[1], t[2])
          /\ args' = [kind |-> "matte", b |-> t[1], f |-> t[2]]
    /\ orig' = img
    /\ op' = "make_background_transparent"
    /\ saves' = saves + 1
    /\ UNCHANGED <<files, project>>
    /\ UNCHANGED <<whiteImg, blackImg, outImg, pc, pixels, local>>

NextEdge == EdgeMatte

SpecEdge == InitEdge /\ [][NextEdge]_vars

EdgeDone == op = "make_background_transparent" /\ args.kind = "matte"

\* The squared distance of pixel q of the input from the detected background,
\* and the pixels strictly inside the band: 0 < t < 1 for the foreground
\* weight t = (dist - b) / (f - b).
EdgeDist2(q) == ColorDist2(RGB(orig.px[q]), ret.actual_bg)
InBand(q) == EdgeDist2(q) > Sq(args.b) /\ EdgeDist2(q) < Sq(args.f)

\* t > 1/100, t >= 1/100 and t = 1/100:  100 * dist against f + 99 * b.
WeightAbove(q) == 10000 * EdgeDist2(q) > Sq(args.f + 99 * args.b)
WeightAtLeast(q) == 10000 * EdgeDist2(q) >= Sq(args.f + 99 * args.b)
WeightAtFloor(q) == 10000 * EdgeDist2(q) = Sq(args.f + 99 * args.b)

\* k * sqrt(d2) >= l and k * sqrt(d2) <= l.
RootTimesGE(k, d2, l) ==
    IF k >= 0 THEN l <= 0 \/ Sq(k) * d2 >= Sq(l)
    ELSE l <= 0 /\ Sq(k) * d2 <= Sq(l)
RootTimesLE(k, d2, l) ==
    IF k >= 0 THEN l >= 0 /\ Sq(k) * d2 <= Sq(l)
    ELSE l >= 0 \/ Sq(k) * d2 >= Sq(l)

\* v is (c - (1 - t) * bg) / t rounded and clamped to 0..255.  The quotient is
\* bg + (c - bg) * (f - b) / (dist - b); v is within 1/2 of it, or is 0 with
\* the quotient below, or 255 with the quotient above.
Unmixed(v, c, bg, d2, b, f) ==
    LET up == 2 * (v - bg) + 1
        down == 2 * (v - bg) - 1
        scaled == 2 * (c - bg) * (f - b)
    IN  /\ v \in 0 .. 255
        /\ v < 255 => RootTimesGE(up, d2, scaled + up * b)
        /\ v > 0 => RootTimesLE(down, d2, scaled + down * b)

\* C16 as stated: for an edge pixel with foreground weight t, 0 < t < 1, each
\* output channel is (observed - (1 - t) * background) / t rounded and clamped
\* to [0, 255] when t is at or above 0.01, and the observed channel when t is
\* below 0.01; every output channel lies in [0, 255].
C16_DecontaminationAtOrAbove ==
    EdgeDone =>
        \A q \in Pos(orig) : InBand(q) =>
            \A k \in 1 .. 3 :
                /\ img.px[q][k] \in 0 .. 255
                /\ IF WeightAtLeast(q)
                   THEN Unmixed(img.px[q][k], orig.px[q][k], ret.actual_bg[k],
                                EdgeDist2(q), args.b, args.f)
                   ELSE img.px[q][k] = orig.px[q][k]

\* C16 amended: the same with the colour decontaminated when t is above 0.01
\* and kept when t is 0.01 or below.
C16_Decontamination ==
    EdgeDone =>
        \A q \in Pos(orig) : InBand(q) =>
            \A k \in 1 .. 3 :
                /\ img.px[q][k] \in 0 .. 255
                /\ IF WeightAbove(q)
                   THEN Unmixed(img.px[q][k], orig.px[q][k], ret.actual_bg[k],
                                EdgeDist2(q), args.b, args.f)
                   ELSE img.px[q][k] = orig.px[q][k]

\* One edge pixel at t = 0.01 exactly, kept with alpha 3, next to one above
\* the floor whose colour is pushed away from the background.
C16_Witness ==
    /\ EdgeDone
    /\ \E q \in Pos(orig) :
          /\ InBand(q) /\ WeightAtFloor(q)
          /\ img.px[q] = WithAlpha(orig.px[q], 3)
    /\ \E q \in Pos(orig) :
          /\ InBand(q) /\ WeightAbove(q)
          /\ \E k \in 1 .. 3 :
                \/ img.px[q][k] < orig.px[q][k] /\ orig.px[q][k] < ret.actual_bg[k]
                \/ img.px[q][k] > orig.px[q][k] /\ orig.px[q][k] > ret.actual_bg[k]

----------------------------------------------------------------------------
(* convert_to_monochrome (ConvertToMonochrome) *)

\* The mutant of MonochromePixel: the target colour scaled by the luminance
\* of the pixel.
MonochromePixelLuminance(p, target_color) ==
    LET lum == (299 * p[1] + 587 * p[2] + 114 * p[3]) \div 1000
    IN  IF Alpha(p) > 0
        THEN << (target_color[1] * lum) \div 255, (target_color[2] * lum) \div 255,
                (target_color[3] * lum) \div 255, Alpha(p) >>
        ELSE p

\* One pixel of the loop: written only when a > 0.
MonochromePixel(p, target_color) ==
    IF Alpha(p) > 0
    THEN <<target_color[1], target_color[2], target_color[3], Alpha(p)>>
    ELSE p

Monochrome(im, target_color) ==
    [im EXCEPT !.px = [q \in Pos(im) |-> MonochromePixel(im.px[q], target_color)]]

MaxMonoPixels == 3
MaxMonoCalls == 2

MonoPalette ==
    { <<10, 20, 30, 0>>, <<255, 255, 255, 0>>, <<10, 20, 30, 255>>, <<200, 100, 50, 1>>,
      <<0, 0, 0, 128>> }

MonoImages == ImagesOver(MonoPalette, MaxMonoPixels)

\* The colours create_logo_variants_theme_structure asks for, and one more.
MonoTargets == {White, Black, <<200, 100, 50>>}

\* img is the file at source_path, outImg the file at output_path.
InitMono ==
    /\ img \in MonoImages
    /\ outImg = NoImage
    /\ orig = NoImage /\ op = "none" /\ args = NoReturn /\ ret = NoReturn
    /\ whiteImg = NoImage /\ blackImg = NoImage
    /\ FloodIdle
    /\ saves = 0
    /\ project = NoProject
    /\ files = NoFiles

\* convert_to_monochrome(source_path, output_path, target_color), source_path
\* being the source file or the output of an earlier call.  saves counts the
\* writes of output_path.
ConvertToMonochrome ==
    /\ op \in {"none", "convert_to_monochrome"}
    /\ saves < MaxMonoCalls
    /\ \E target_color \in MonoTargets,
          source_path \in IF outImg = NoImage THEN {"source"} ELSE {"source", "output"} :
          LET source == IF source_path = "source" THEN img ELSE outImg
          IN  /\ outImg' = Monochrome(source, target_color)
              /\ orig' = source
              /\ args' = [kind |-> "monochrome", source_path |-> source_path,
                          target_color |-> target_color]
    /\ op' = "convert_to_monochrome"
    /\ ret' = [kind |-> "return"]
    /\ saves' = saves + 1
    /\ UNCHANGED <<files, project>>
    /\ UNCHANGED <<img, whiteImg, blackImg, pc, pixels, local>>

NextMono == ConvertToMonochrome

SpecMono == InitMono /\ [][NextMono]_vars

MonoDone == op = "convert_to_monochrome"

----------------------------------------------------------------------------
(* AssetGenerator.finalize (Finalize) *)

\* An image file: the mode PIL opens it in, and its pixels as RGBA (alpha 255
\* everywhere for a mode without alpha).
AsFile(mode, im) == [mode |-> mode, w |-> im.w, h |-> im.h, px |-> im.px]
Decoded(file) == [w |-> file.w, h |-> file.h, px |-> file.px]

\* has_alpha_channel(image_path)
HasAlphaChannel(file) == file.mode \in {"RGBA", "LA", "PA"}

\* get_image_dimensions(image_path)
GetImageDimensions(file) == <<file.w, file.h>>

\* create_logo_variants(source_color_logo, output_dir, platform_id): the colour
\* logo re-exported, and its white and black monochrome derivatives, in the
\* order they are made.
CreateLogoVariants(logo) ==
    << [name |-> "Dark - Color", file |-> logo],
       [name |-> "Dark - Black", file |-> AsFile("RGBA", Monochrome(Decoded(logo), White))],
       [name |-> "Light - White", file |-> AsFile("RGBA", Monochrome(Decoded(logo), Black))] >>

MaxFinalPixels == 2

FinalPalette == { <<255, 255, 255, 0>>, <<10, 20, 30, 255>>, <<200, 100, 50, 128>> }

\* The selected device candidate: what the generator returned, resized when
\* it had another size; no stage gives it or takes from it an alpha channel.
DeviceFiles ==
    {AsFile("RGB", im) : im \in ImagesOver(Opaque({White, <<10, 20, 30>>}), MaxFinalPixels)}
        \cup {AsFile("RGBA", im) : im \in ImagesOver(FinalPalette, MaxFinalPixels)}

\* The selected logo candidate: saved by make_background_transparent, in mode
\* RGBA with the corner of the background colour transparent.
LogoFiles ==
    {AsFile("RGBA", im) : im \in {i \in ImagesOver(FinalPalette, MaxFinalPixels) :
                                     Alpha(i.px[<<0, 0>>]) = 0}}

InitFinal ==
    /\ files \in [{"devices/selected", "logos/selected"} -> DeviceFiles \cup LogoFiles]
    /\ files["devices/selected"] \in DeviceFiles
    /\ files["logos/selected"] \in LogoFiles
    /\ img = NoImage /\ orig = NoImage /\ op = "none" /\ args = NoReturn /\ ret = NoReturn
    /\ whiteImg = NoImage /\ blackImg = NoImage /\ outImg = NoImage
    /\ FloodIdle
    /\ saves = 0
    /\ project = NoProject

\* One GeneratedAsset.
Asset(asset_type, output_path, file, has_alpha) ==
    [asset_type |-> asset_type, output_path |-> output_path,
     dimensions |-> GetImageDimensions(file), has_alpha |-> has_alpha]

\* finalize(state) with both candidates selected and every copy succeeding:
\* the candidates are copied to selected/, the device to final/, the logo
\* variants are written to final/, and one asset is reported for each.
Finalize ==
    /\ op = "none"
    /\ DOMAIN files = {"devices/selected", "logos/selected"}
    /\ LET device == files["devices/selected"]
           logo == files["logos/selected"]
           variants == CreateLogoVariants(logo)
           path(i) == "final/" \o variants[i].name
       IN  /\ files' = [name \in DOMAIN files
                            \cup {"selected/device.png", "selected/logo_base.png",
                                  "final/device.png"}
                            \cup {path(i) : i \in DOMAIN variants} |->
                          IF name \in DOMAIN files THEN files[name]
                          ELSE IF name \in {"selected/device.png", "final/device.png"}
                               THEN device
                          ELSE IF name = "selected/logo_base.png" THEN logo
                          ELSE variants[CHOOSE i \in DOMAIN variants : path(i) = name].file]
           /\ ret' = [kind |-> "result",
                      assets |-> <<Asset("device", "final/device.png", device, FALSE)>>
                                  \o [i \in DOMAIN variants |->
                                        Asset(variants[i].name, path(i), variants[i].file,
                                              HasAlphaChannel(variants[i].file))],
                      errors |-> <<>>]
    /\ op' = "finalize"
    /\ args' = [kind |-> "finalize"]
    /\ UNCHANGED <<img, orig, whiteImg, blackImg, outImg, pc, pixels, local, saves, project>>

NextFinal == Finalize

SpecFinal == InitFinal /\ [][NextFinal]_vars

FinalDone == op = "finalize"

\* The alpha values of the file of an asset that are not 255.
TranslucentCells(asset) ==
    {q \in Pos(files[asset.output_path]) : Alpha(files[asset.output_path].px[q]) # 255}

\* C18: the flag reported for every finalized asset, the device and each logo
\* variant, is true exactly when the pixels of the asset hold at least one
\* alpha value other than 255.
C18_AlphaFlagExact ==
    FinalDone =>
        \A i \in DOMAIN ret.assets :
            ret.assets[i].has_alpha = (TranslucentCells(ret.assets[i]) # {})

\* The part that holds: the flag of every logo variant is exact.
C18_VariantFlags ==
    FinalDone =>
        \A i \in DOMAIN ret.assets :
            ret.assets[i].asset_type # "device" =>
                ret.assets[i].has_alpha = (TranslucentCells(ret.assets[i]) # {})

----------------------------------------------------------------------------
(* resize_image (ResizeImage) *)

\* img.resize((w, h), LANCZOS) returns a buffer of w x h pixels.  The values
\* the filter computes are not modelled: the buffer is the nearest-pixel
\* sample of the source, or flat in a colour between those of the source.
Nearest(im, w, h) ==
    [w |-> w, h |-> h,
     px |-> [q \in Cells(w, h) |-> im.px[<<(q[1] * im.w) \div w, (q[2] * im.h) \div h>>]]]

Midway(im) ==
    LET Lowest(k) == CHOOSE v \in {im.px[q][k] : q \in Pos(im)} :
                        \A q \in Pos(im) : v <= im.px[q][k]
        Highest(k) == CHOOSE v \in {im.px[q][k] : q \in Pos(im)} :
                        \A q \in Pos(im) : v >= im.px[q][k]
    IN  [k \in 1 .. 4 |-> (Lowest(k) + Highest(k)) \div 2]

Resampled(im, w, h) ==
    { Nearest(im, w, h), [w |-> w, h |-> h, px |-> [q \in Cells(w, h) |-> Midway(im)]] }

\* The mutant of ResizeOutcomes: no early return, an image of the target size
\* is resampled and saved like any other.
ResizeOutcomesNoShortcut(im, w, h) ==
    { [out |-> r, saved |-> 1, ret |-> <<im.w, im.h, w, h>>] : r \in Resampled(im, w, h) }

\* resize_image(image_path, w, h) on the image im: what image_path holds
\* afterwards, whether it was written, and the tuple returned.
ResizeOutcomes(im, w, h) ==
    IF <<im.w, im.h>> = <<w, h>>
    THEN { [out |-> im, saved |-> 0, ret |-> <<im.w, im.h, im.w, im.h>>] }
    ELSE { [out |-> r, saved |-> 1, ret |-> <<im.w, im.h, w, h>>] : r \in Resampled(im, w, h) }

MaxResizeSide == 2

ResizeSizes == (1 .. MaxResizeSide) \X (1 .. MaxResizeSide)

\* Of every size a flat image and one of two alternating colours.
ResizeImages ==
    UNION { { [w |-> d[1], h |-> d[2], px |-> [q \in Cells(d[1], d[2]) |-> <<10, 20, 30, 255>>]],
              [w |-> d[1], h |-> d[2],
               px |-> [q \in Cells(d[1], d[2]) |->
                          IF (q[1] + q[2]) % 2 = 0 THEN <<10, 20, 30, 255>>
                          ELSE <<200, 100, 50, 128>>]] } :
            d \in ResizeSizes }

InitResize ==
    /\ img \in ResizeImages
    /\ orig = NoImage /\ op = "none" /\ args = NoReturn /\ ret = NoReturn
    /\ whiteImg = NoImage /\ blackImg = NoImage /\ outImg = NoImage
    /\ FloodIdle
    /\ saves = 0
    /\ project = NoProject
    /\ files = NoFiles

\* resize_image(image_path, target_width, target_height), called once and
\* then once more on the file the first call left.
ResizeImage ==
    /\ op = "none" \/ (op = "resize_image" /\ args.call = "first")
    /\ \E d \in ResizeSizes :
          \E r \in ResizeOutcomes(img, d[1], d[2]) :
              /\ img' = r.out
              /\ saves' = saves + r.saved
              /\ ret' = [kind |-> "return", value |-> r.ret]
              /\ args' = [kind |-> "resize", target_width |-> d[1], target_height |-> d[2],
                          call |-> IF op = "none" THEN "first" ELSE "second"]
    /\ orig' = img
    /\ op' = "resize_image"
    /\ UNCHANGED <<whiteImg, blackImg, outImg, pc, pixels, local, files, project>>

NextResize == ResizeImage

SpecResize == InitResize /\ [][NextResize]_vars

ResizeDone == op = "resize_image"

ResizeTarget == <<args.target_width, args.target_height>>

\* C19: after a call on an image of the target size the file is what it was
\* and the tuple returned repeats its size; after a call on an image of
\* another size the file has the target size and the tuple is (orig_w, orig_h,
\* w, h).  A call on an image of the target size does not write the file.  A
\* second call with the target of the first reports original = new and leaves
\* the file as it is, unwritten.
C19_Resize ==
    /\ [](ResizeDone =>
            IF <<orig.w, orig.h>> = ResizeTarget
            THEN /\ img = orig
                 /\ ret.value = <<orig.w, orig.h, orig.w, orig.h>>
            ELSE /\ <<img.w, img.h>> = ResizeTarget
                 /\ Pos(img) = Cells(args.target_width, args.target_height)
                 /\ ret.value = <<orig.w, orig.h, args.target_width, args.target_height>>)
    /\ [][(op' = "resize_image" /\ <<img.w, img.h>> = ResizeTarget')
              => (saves' = saves /\ img' = img)]_vars
    /\ [][(ResizeDone /\ args.call = "first" /\ ResizeTarget' = ResizeTarget)
              => /\ img' = img /\ saves' = saves
                 /\ <<ret'.value[1], ret'.value[2]>> = <<ret'.value[3], ret'.value[4]>>]_vars

\* A second call with the target of the first, the first having resampled the
\* file to another size.
C19_Witness ==
    /\ ResizeDone /\ args.call = "second"
    /\ saves = 1
    /\ img = orig
    /\ <<img.w, img.h>> = ResizeTarget
    /\ ret.value = <<2, 1, 2, 1>>

----------------------------------------------------------------------------
(* quantize_png (QuantizePng) *)

\* A quality string is the sequence of its pieces between "-" signs; a piece
\* is a decimal integer (digits, with its value) or something int() rejects.
Number(n) == [digits |-> TRUE, value |-> n]
NotANumber == [digits |-> FALSE, value |-> 0]

\* "65-80" (the default), "80", "80-65", "best", "10-20-30", "-5".
Qualities ==
    { <<Number(65), Number(80)>>, <<Number(80)>>, <<Number(80), Number(65)>>,
      <<NotANumber>>, <<Number(10), Number(20), Number(30)>>, <<NotANumber, Number(5)>> }

\* Whether the parse raises ValueError: int() of a piece that is no number,
\* or the unpacking of other than two pieces.
QualityRaises(quality) ==
    \/ \E i \in DOMAIN quality : ~quality[i].digits
    \/ Len(quality) > 2

\* min_q, max_q as the first try block leaves them.
ParseQuality(quality) ==
    IF QualityRaises(quality) THEN <<65, 80>>
    ELSE IF Len(quality) = 2 THEN <<quality[1].value, quality[2].value>>
    ELSE <<quality[1].value, quality[1].value>>

MaxFileSize == 3

\* A file: whose bytes it holds (the generator's, the quantizer's, or the part
\* of them an interrupted save wrote), how many, and whether PIL decodes them.
OriginalFiles ==
    { [content |-> "original", size |-> n, decodable |-> d] :
        n \in 1 .. MaxFileSize, d \in BOOLEAN }

\* The statement of the second try block that raises: Image.open on bytes
\* that are no image; quantize_pil_image, always on a quality range that is
\* not 0 <= min <= max <= 100 and possibly on any image; save, possibly.
Raising(file, min_q, max_q) ==
    IF ~file.decodable THEN {"open"}
    ELSE IF ~(0 <= min_q /\ min_q <= max_q /\ max_q <= 100) THEN {"quantize"}
    ELSE {"quantize", "save", "none"}

\* What image_path holds after the second try block.  save opens the file for
\* writing before it encodes, so a save that raises leaves the bytes written
\* so far.
StoredAfter(file, raised) ==
    IF raised \in {"open", "quantize"} THEN {file}
    ELSE IF raised = "save"
    THEN { [content |-> "partial", size |-> n, decodable |-> FALSE] :
              n \in 0 .. MaxFileSize - 1 }
    ELSE { [content |-> "quantized", size |-> n, decodable |-> TRUE] :
              n \in 1 .. MaxFileSize }

\* The QuantizeResult returned; reduction_pct = (1 - quantized / original) * 100
\* is kept as the fraction num / den.
QuantizeResult(file, stored, raised) ==
    IF raised = "none"
    THEN [kind |-> "return", original_size |-> file.size, quantized_size |-> stored.size,
          reduction_pct |-> [num |-> 100 * (file.size - stored.size), den |-> file.size],
          method |-> "imagequant"]
    ELSE [kind |-> "return", original_size |-> file.size, quantized_size |-> file.size,
          reduction_pct |-> [num |-> 0, den |-> 1], method |-> "skipped"]

InitQuantize ==
    /\ files \in [{"image_path"} -> OriginalFiles]
    /\ img = NoImage /\ orig = NoImage /\ op = "none" /\ args = NoReturn /\ ret = NoReturn
    /\ whiteImg = NoImage /\ blackImg = NoImage /\ outImg = NoImage
    /\ FloodIdle
    /\ saves = 0
    /\ project = NoProject

\* quantize_png(image_path, quality) on an existing file.
QuantizePng ==
    /\ op = "none"
    /\ DOMAIN files = {"image_path"}
    /\ \E quality \in Qualities :
          LET file == files["image_path"]
              q == ParseQuality(quality)
          IN  \E raised \in Raising(file, q[1], q[2]) :
                  \E stored \in StoredAfter(file, raised) :
                      /\ files' = [files EXCEPT !["image_path"] = stored]
                      /\ ret' = QuantizeResult(file, stored, raised)
                      /\ local' = [kind |-> "quantize", original |-> file,
                                   min_q |-> q[1], max_q |-> q[2], raised |-> raised]
                      /\ args' = [kind |-> "quantize", quality |-> quality]
                      /\ saves' = saves + (IF raised \in {"save", "none"} THEN 1 ELSE 0)
    /\ op' = "quantize_png"
    /\ UNCHANGED <<img, orig, whiteImg, blackImg, outImg, pc, pixels, project>>

NextQuantize == QuantizePng

SpecQuantize == InitQuantize /\ [][NextQuantize]_vars

QuantizeDone == op = "quantize_png"

\* The result of the fallback, with the file as it was.
FellBack ==
    /\ ret.quantized_size = ret.original_size
    /\ ret.original_size = local.original.size
    /\ ret.reduction_pct.num = 0
    /\ files["image_path"] = local.original

\* C20: every call returns a result, and on an internal failure (an
\* unparsable quality range, an undecodable image, a quantizer error, a
\* failure while saving) the result has quantized_size = original_size and
\* reduction 0 and the file holds the original bytes.
C20_QuantizeFallsBack ==
    QuantizeDone =>
        /\ ret.kind = "return"
        /\ (QualityRaises(args.quality) \/ local.raised # "none") => FellBack

\* What holds: the result of a call in which Image.open, the quantizer or
\* save raised has quantized_size = original_size and reduction 0, and the
\* file is as it was unless it was save that raised.
C20_SkippedResult ==
    QuantizeDone =>
        /\ ret.kind = "return"
        /\ local.raised # "none" =>
              /\ ret.quantized_size = ret.original_size
              /\ ret.reduction_pct.num = 0
              /\ local.raised # "save" => files["image_path"] = local.original

----------------------------------------------------------------------------
(* StateManager (state.py) *)

\* An optional value: None, or the value.
None == <<>>
Some(v) == <<v>>

\* WorkflowStep, by its values, and the order print_workflow_status shows.
Steps == <<"initialized", "candidates_generated", "selection_made", "finalized", "deployed">>
StepRank(step) == CHOOSE i \in DOMAIN Steps : Steps[i] = step

\* ProjectState(...) as create_project builds it.  A candidate filename
\* device_00i.png or logo_00i.png is the number i; a time is the number of
\* writes of state.json up to it.
NewProject(device_count, logo_count, now) ==
    [exists |-> TRUE, step |-> "initialized",
     devices |-> <<>>, logos |-> <<>>, device |-> None, logo |-> None,
     deployments |-> <<>>, device_count |-> device_count, logo_count |-> logo_count,
     created_at |-> now, updated_at |-> now]

\* save_state: touch, then write.
SaveState(state, now) == [state EXCEPT !.updated_at = now]

Saved(state, now) == [project |-> SaveState(state, now), saved |-> 1, ret |-> [kind |-> "return"]]
Raised(p, error) == [project |-> p, saved |-> 0, ret |-> [kind |-> "raise", error |-> error]]

\* update_candidates(platform_id, devices, logos)
UpdateCandidatesCall(p, devices, logos, now) ==
    IF ~p.exists THEN Raised(p, "ValueError")
    ELSE LET d == IF devices # None THEN [p EXCEPT !.devices = devices[1]] ELSE p
             l == IF logos # None THEN [d EXCEPT !.logos = logos[1]] ELSE d
         IN  Saved([l EXCEPT !.step = "candidates_generated"], now)

\* The mutant of UpdateSelectionCall: the device is stored as soon as it is
\* checked.
UpdateSelectionCallSavesEarly(p, device, logo, now) ==
    IF ~p.exists THEN Raised(p, "ValueError")
    ELSE IF device # None /\ (device[1] < 1 \/ device[1] > Len(p.devices))
    THEN Raised(p, "ValueError")
    ELSE LET d == IF device # None THEN [p EXCEPT !.device = device] ELSE p
         IN  IF logo # None /\ (logo[1] < 1 \/ logo[1] > Len(p.logos))
             THEN [project |-> SaveState(d, now), saved |-> 1,
                   ret |-> [kind |-> "raise", error |-> "ValueError"]]
             ELSE LET l == IF logo # None THEN [d EXCEPT !.logo = logo] ELSE d
                  IN  Saved(IF l.device # None /\ l.logo # None
                            THEN [l EXCEPT !.step = "selection_made"] ELSE l, now)

\* The mutant of UpdateSelectionCall: the step is set by any selection.
UpdateSelectionCallAnySets(p, device, logo, now) ==
    IF ~p.exists THEN Raised(p, "ValueError")
    ELSE IF device # None /\ (device[1] < 1 \/ device[1] > Len(p.devices))
    THEN Raised(p, "ValueError")
    ELSE IF logo # None /\ (logo[1] < 1 \/ logo[1] > Len(p.logos))
    THEN Raised(p, "ValueError")
    ELSE LET d == IF device # None THEN [p EXCEPT !.device = device] ELSE p
             l == IF logo # None THEN [d EXCEPT !.logo = logo] ELSE d
         IN  Saved([l EXCEPT !.step = "selection_made"], now)

\* update_selection(platform_id, device, logo): the state is saved only when
\* neither check raised.
UpdateSelectionCall(p, device, logo, now) ==
    IF ~p.exists THEN Raised(p, "ValueError")
    ELSE IF device # None /\ (device[1] < 1 \/ device[1] > Len(p.devices))
    THEN Raised(p, "ValueError")
    ELSE IF logo # None /\ (logo[1] < 1 \/ logo[1] > Len(p.logos))
    THEN Raised(p, "ValueError")
    ELSE LET d == IF device # None THEN [p EXCEPT !.device = device] ELSE p
             l == IF logo # None THEN [d EXCEPT !.logo = logo] ELSE d
         IN  Saved(IF l.device # None /\ l.logo # None
                   THEN [l EXCEPT !.step = "selection_made"] ELSE l, now)

\* The mutant of MarkFinalizedCall: the project is marked as deployed.
MarkFinalizedCallDeployed(p, now) ==
    IF ~p.exists THEN Raised(p, "ValueError")
    ELSE Saved([p EXCEPT !.step = "deployed"], now)

\* mark_finalized(platform_id)
MarkFinalizedCall(p, now) ==
    IF ~p.exists THEN Raised(p, "ValueError")
    ELSE Saved([p EXCEPT !.step = "finalized"], now)

\* add_deployment(platform_id, theme, files)
AddDeploymentCall(p, theme, deployed, now) ==
    IF ~p.exists THEN Raised(p, "ValueError")
    ELSE Saved([p EXCEPT !.deployments = Append(@, [theme |-> theme, deployed_at |-> now,
                                                     files |-> deployed]),
                         !.step = "deployed"], now)

MaxCount == 2
MaxStateWrites == 4

\* The lists update_candidates is given: the filenames generated, in order.
CandidateLists == {<<>>, <<1>>, <<1, 2>>}

\* The indexes update_selection is given: 1-based, and one out of range on
\* either side of the longest list.
SelectionIndexes == {0, 1, 2, 3}

InitState ==
    /\ project = NoProject
    /\ img = NoImage /\ orig = NoImage /\ op = "none" /\ args = NoReturn /\ ret = NoReturn
    /\ whiteImg = NoImage /\ blackImg = NoImage /\ outImg = NoImage
    /\ FloodIdle
    /\ saves = 0
    /\ files = NoFiles

\* What a StateManager operation leaves: the state file, the count of its
\* writes, and what the call returned or raised.
StateCall(name, arguments, r) ==
    /\ project' = r.project
    /\ saves' = saves + r.saved
    /\ ret' = r.ret
    /\ op' = name
    /\ args' = arguments
    /\ UNCHANGED <<img, orig, whiteImg, blackImg, outImg, pc, pixels, local, files>>

CreateProject ==
    /\ saves < MaxStateWrites
    /\ \E device_count \in 1 .. MaxCount, logo_count \in 1 .. MaxCount :
          StateCall("create_project",
                    [kind |-> "create", device_count |-> device_count,
                     logo_count |-> logo_count],
                    [project |-> NewProject(device_count, logo_count, saves + 1),
                     saved |-> 1, ret |-> [kind |-> "return"]])

UpdateCandidates ==
    /\ saves < MaxStateWrites
    /\ \E devices \in {None} \cup {Some(l) : l \in CandidateLists},
          logos \in {None} \cup {Some(l) : l \in CandidateLists} :
          StateCall("update_candidates",
                    [kind |-> "candidates", devices |-> devices, logos |-> logos],
                    UpdateCandidatesCall(project, devices, logos, saves + 1))

UpdateSelection ==
    /\ saves < MaxStateWrites
    /\ \E device \in {None} \cup {Some(n) : n \in SelectionIndexes},
          logo \in {None} \cup {Some(n) : n \in SelectionIndexes} :
          StateCall("update_selection",
                    [kind |-> "selection", device |-> device, logo |-> logo],
                    UpdateSelectionCall(project, device, logo, saves + 1))

MarkFinalized ==
    /\ saves < MaxStateWrites
    /\ StateCall("mark_finalized", [kind |-> "finalized"],
                 MarkFinalizedCall(project, saves + 1))

AddDeployment ==
    /\ saves < MaxStateWrites
    /\ StateCall("add_deployment", [kind |-> "deployment", theme |-> "colorful"],
                 AddDeploymentCall(project, "colorful", {"device"}, saves + 1))

NextState ==
    \/ CreateProject
    \/ UpdateCandidates
    \/ UpdateSelection
    \/ MarkFinalized
    \/ AddDeployment

SpecState == InitState /\ [][NextState]_vars

----------------------------------------------------------------------------
(* AssetGenerator: generate_candidates, regenerate_device, regenerate_logo *)

\* The stage of _generate_single_asset that raises, or "none".  "api" stands
\* for every failure before the generated bytes are in output_path; a device
\* has no background to remove (bg_type is None).
DeviceStages == {"none", "api", "resize"}
LogoStages == DeviceStages \cup {"matte"}
StagesOf(kind) == IF kind = "device" THEN DeviceStages ELSE LogoStages

\* What output_path holds, by the last stage that wrote it.
Absent == [stage |-> "absent"]
Finished(kind) == [stage |-> IF kind = "device" THEN "resized" ELSE "matted"]

\* _generate_single_asset(asset_type, ..., output_path): the file at
\* output_path afterwards, when the stage `failed` raised.  Each stage writes
\* output_path itself; nothing is removed or restored on the way out.
GenerateSingleAsset(old, kind, failed) ==
    CASE failed = "api" -> old
      [] failed = "resize" -> [stage |-> "written"]
      [] failed = "matte" -> [stage |-> "resized"]
      [] OTHER -> Finished(kind)

\* The candidates of one kind that generate_candidates attempts, in order.
Attempted(count) == [i \in 1 .. count |-> i]

\* The mutant of GeneratedNames: the loop ends at the first failure.
GeneratedNamesStopAtError(failed, count) ==
    LET bad == {i \in 1 .. count : failed[i] # "none"}
        first == IF bad = {} THEN count + 1 ELSE CHOOSE i \in bad : \A j \in bad : i <= j
    IN  [i \in 1 .. first - 1 |-> i]

\* devices_generated / logos_generated: the filename is appended when
\* _generate_single_asset returned.
GeneratedNames(failed, count) ==
    SelectSeq(Attempted(count), LAMBDA i : failed[i] = "none")

\* errors: (f"device_{i}", str(e)) for each candidate whose generation raised.
ErrorNames(kind, failed, count) ==
    LET bad == SelectSeq(Attempted(count), LAMBDA i : failed[i] # "none")
    IN  [j \in 1 .. Len(bad) |-> <<kind, bad[j]>>]

\* The candidate files, <<kind, i>> for devices/device_00i.png and
\* logos/logo_00i.png.
CandidateNames == {"device", "logo"} \X (1 .. MaxCount)

\* Bounds the operations of one run that write under the project directory.
MaxGenerateWrites == 2

InitGenerate ==
    /\ \E device_count \in 1 .. MaxCount, logo_count \in 1 .. MaxCount :
          project = NewProject(device_count, logo_count, 0)
    /\ files = [name \in CandidateNames |-> Absent]
    /\ local = [kind |-> "none"]
    /\ img = NoImage /\ orig = NoImage /\ op = "none" /\ args = NoReturn /\ ret = NoReturn
    /\ whiteImg = NoImage /\ blackImg = NoImage /\ outImg = NoImage
    /\ pc = "idle" /\ pixels = <<>>
    /\ saves = 0

\* generate_candidates(state, ...): every device, then every logo, then
\* update_candidates.  The candidates command calls it with the project that
\* create_project has just made.  local records which stage the environment
\* failed.
GenerateCandidates ==
    /\ project.exists
    /\ project.step = "initialized"
    /\ saves < MaxGenerateWrites
    /\ \E device_failed \in [1 .. project.device_count -> DeviceStages],
          logo_failed \in [1 .. project.logo_count -> LogoStages] :
          LET devices_generated == GeneratedNames(device_failed, project.device_count)
              logos_generated == GeneratedNames(logo_failed, project.logo_count)
              errors == ErrorNames("device", device_failed, project.device_count)
                          \o ErrorNames("logo", logo_failed, project.logo_count)
              updated == UpdateCandidatesCall(project, Some(devices_generated),
                                              Some(logos_generated), saves + 1)
          IN  /\ files' = [name \in CandidateNames |->
                            IF name[1] = "device" /\ name[2] <= project.device_count
                            THEN GenerateSingleAsset(files[name], "device", device_failed[name[2]])
                            ELSE IF name[1] = "logo" /\ name[2] <= project.logo_count
                            THEN GenerateSingleAsset(files[name], "logo", logo_failed[name[2]])
                            ELSE files[name]]
              /\ project' = updated.project
              /\ saves' = saves + updated.saved
              /\ local' = [kind |-> "generate", devices |-> device_failed, logos |-> logo_failed]
              /\ ret' = [kind |-> "result", devices_generated |-> devices_generated,
                         logos_generated |-> logos_generated, errors |-> errors]
    /\ op' = "generate_candidates"
    /\ args' = [kind |-> "generate"]
    /\ UNCHANGED <<img, orig, whiteImg, blackImg, outImg, pc, pixels>>

\* regenerate_device(state, index) and regenerate_logo(state, index): the
\* state file is not written.  saves counts the operations that wrote under
\* the project directory.
Regenerate(kind) ==
    /\ project.exists
    /\ saves < MaxGenerateWrites
    /\ \E index \in 0 .. MaxCount + 1 :
          LET count == IF kind = "device" THEN project.device_count ELSE project.logo_count
          IN  /\ args' = [kind |-> kind, index |-> index]
              /\ IF index < 1 \/ index > count
                 THEN /\ ret' = [kind |-> "return", value |-> FALSE]
                      /\ local' = [kind |-> "none"]
                      /\ UNCHANGED <<files, saves>>
                 ELSE \E failed \in StagesOf(kind) :
                         /\ files' = [files EXCEPT ![<<kind, index>>] =
                                         GenerateSingleAsset(@, kind, failed)]
                         /\ local' = [kind |-> "regenerate", failed |-> failed]
                         /\ ret' = [kind |-> "return", value |-> (failed = "none")]
                         /\ saves' = saves + 1
    /\ op' = IF kind = "device" THEN "regenerate_device" ELSE "regenerate_logo"
    /\ UNCHANGED <<img, orig, whiteImg, blackImg, outImg, pc, pixels, project>>

RegenerateDevice == Regenerate("device")
RegenerateLogo == Regenerate("logo")

NextGenerate ==
    \/ GenerateCandidates
    \/ RegenerateDevice
    \/ RegenerateLogo

SpecGenerate == InitGenerate /\ [][NextGenerate]_vars

\* The candidate files select and finalize read: those the persisted lists name.
Listed(name) ==
    /\ project.exists
    /\ LET names == IF name[1] = "device" THEN project.devices ELSE project.logos
       IN  \E j \in 1 .. Len(names) : names[j] = name[2]

\* A file that holds the output of only the earlier stages of the pipeline.
Partial(name) == files[name] \notin {Absent, Finished(name[1])}

\* C21: a failed stage leaves no partially processed image visible
\* downstream: whichever stage of the per-asset pipeline failed, also during
\* the regeneration of a listed candidate, no candidate file that the project
\* lists holds the output of only the earlier stages.
C21_NoPartialFile == \A name \in CandidateNames : Listed(name) => ~Partial(name)

GenerateDone == op = "generate_candidates"

\* names lists, in increasing order and once each, the candidates among
\* 1 .. count whose generation did not fail.
ListsSuccesses(names, failed, count) ==
    /\ \A j \in 1 .. Len(names) - 1 : names[j] < names[j + 1]
    /\ {names[j] : j \in 1 .. Len(names)} = {i \in 1 .. count : failed[i] = "none"}

\* errors names candidate i of the kind exactly when its generation failed.
NamesFailures(errors, kind, failed, count) ==
    \A i \in 1 .. count :
       (failed[i] # "none") <=> (\E j \in 1 .. Len(errors) : errors[j] = <<kind, i>>)

----------------------------------------------------------------------------
(* Properties of the StateManager operations *)

\* The selection a call of update_selection is given is invalid for the
\* project p it is applied to.
InvalidSelection(p, arguments) ==
    \/ ~p.exists
    \/ /\ arguments.device # None
       /\ arguments.device[1] < 1 \/ arguments.device[1] > Len(p.devices)
    \/ /\ arguments.logo # None
       /\ arguments.logo[1] < 1 \/ arguments.logo[1] > Len(p.logos)

\* C24: update_selection rejects an invalid selection without changing the
\* project: when the device index or the logo index is out of range of its
\* candidate list, or the project does not exist, the call raises ValueError
\* and the persisted state is what it was before the call and is not written,
\* also when the other index of the call was valid.
C24_InvalidSelectionRejected ==
    [][(op' = "update_selection" /\ InvalidSelection(project, args'))
          => /\ ret' = [kind |-> "raise", error |-> "ValueError"]
             /\ project' = project
             /\ saves' = saves]_vars

\* A call with a valid device index and a logo index out of range has raised,
\* and the device is not selected.
C24_Witness ==
    /\ op = "update_selection"
    /\ ret = [kind |-> "raise", error |-> "ValueError"]
    /\ project.exists
    /\ args.device = Some(1) /\ Len(project.devices) >= 1
    /\ args.logo = Some(3)
    /\ project.device = None

\* C25: in every persisted project state the step SELECTION_MADE implies that
\* both the device and the logo are selected, and a call of update_selection
\* after which one of the two is still unselected leaves the step unchanged.
C25_SelectionMade ==
    /\ [](project.exists /\ project.step = "selection_made"
             => project.device # None /\ project.logo # None)
    /\ [][(op' = "update_selection" /\ project.exists
              /\ (project'.device = None \/ project'.logo = None))
             => project'.step = project.step]_vars

\* update_selection has stored a device for a project with no logo selected,
\* and the step is still the one update_candidates set.
C25_Witness ==
    /\ op = "update_selection"
    /\ ret = [kind |-> "return"]
    /\ project.device = Some(1) /\ project.logo = None
    /\ project.step = "candidates_generated"
    /\ project.updated_at = saves

\* C28: under any sequence of StateManager operations every persisted state
\* has its selected device unset or within 1 .. len(candidates.devices) and
\* its selected logo unset or within 1 .. len(candidates.logos), so that
\* finalize never indexes outside the candidate lists.
C28_SelectionInRange ==
    project.exists =>
       /\ project.device = None
             \/ (1 <= project.device[1] /\ project.device[1] <= Len(project.devices))
       /\ project.logo = None
             \/ (1 <= project.logo[1] /\ project.logo[1] <= Len(project.logos))

\* C29, as stated: no StateManager operation applied to an existing project
\* lowers its persisted step in the order INITIALIZED < CANDIDATES_GENERATED <
\* SELECTION_MADE < FINALIZED < DEPLOYED.  create_project, which replaces the
\* project by a new one, is left aside.
C29_StepNeverLowers ==
    [][project.exists /\ op' # "create_project"
          => StepRank(project'.step) >= StepRank(project.step)]_vars

\* The step an operation of the StateManager assigns.
OwnStep(name) ==
    CASE name = "create_project" -> "initialized"
      [] name = "update_candidates" -> "candidates_generated"
      [] name = "update_selection" -> "selection_made"
      [] name = "mark_finalized" -> "finalized"
      [] name = "add_deployment" -> "deployed"

\* C29, amended: a StateManager operation applied to an existing project
\* leaves its persisted step unchanged or sets it to the step of its own
\* stage, whatever the step was before; so the step moves backwards only when
\* an operation of an earlier stage is applied again, and a call that raises
\* leaves the step as it was.
C29_StepSetByOperation ==
    [][project.exists
          => /\ project'.exists
             /\ project'.step \in {project.step, OwnStep(op')}
             /\ ret'.kind = "raise" => project'.step = project.step]_vars

\* update_selection has moved a project that was deployed back to
\* SELECTION_MADE.
C29_Witness ==
    /\ op = "update_selection"
    /\ project.exists
    /\ project.step = "selection_made"
    /\ Len(project.deployments) >= 1

----------------------------------------------------------------------------
(* The workflow after generation: select, finalize, deploy *)

\* Deployer.ASSET_FILES, in the order the dict is iterated.
AssetOrder == <<"device", "logo_dark_color", "logo_dark_black", "logo_light_color",
                "logo_light_white">>
AssetTypes == {AssetOrder[i] : i \in DOMAIN AssetOrder}

\* The files of this part: <<"candidate", kind>> is the candidate the project
\* lists, <<"selected", n>> and <<"final", n>> are what finalize writes,
\* <<"project", a>> is project_dir / ASSET_FILES[a], where deploy looks for
\* asset a, <<"theme", a>> is the target of asset a in the theme, and
\* ThemeBase is the base path of the theme.
ThemeBase == <<"theme", "base_path">>
WorkflowNames ==
    ({"candidate"} \X {"device", "logo"})
       \cup ({"selected"} \X {"device", "logo_base"})
       \cup ({"final"} \X {"device", "logo_variants"})
       \cup ({"project"} \X AssetTypes)
       \cup ({"theme"} \X AssetTypes)
       \cup {ThemeBase}

\* The themes of themes.yaml: one is configured.
ThemeNames == {"colorful", "unknown"}
ThemeConfigured(theme_name) == theme_name = "colorful"

\* The steps of finalize that record an error, in order.
FinalizeSteps == <<"device_copy", "logo_copy", "device_final", "logo_variants">>

\* The file each step of finalize reads, and the one it writes.
StepReads(step) ==
    CASE step = "device_copy" -> <<"candidate", "device">>
      [] step = "logo_copy" -> <<"candidate", "logo">>
      [] step = "device_final" -> <<"selected", "device">>
      [] step = "logo_variants" -> <<"selected", "logo_base">>
StepWrites(step) ==
    CASE step = "device_copy" -> <<"selected", "device">>
      [] step = "logo_copy" -> <<"selected", "logo_base">>
      [] step = "device_final" -> <<"final", "device">>
      [] step = "logo_variants" -> <<"final", "logo_variants">>

\* The files after the first n steps of finalize, when the steps in `failing`
\* raise for a reason of their own; a step raises as well when the file it
\* reads is not there.
RECURSIVE FinalizeFiles(_, _, _)
FinalizeFiles(fs, failing, n) ==
    IF n = 0 THEN fs
    ELSE LET before == FinalizeFiles(fs, failing, n - 1)
             step == FinalizeSteps[n]
         IN  IF step \in failing \/ before[StepReads(step)] = "absent"
             THEN before
             ELSE [before EXCEPT ![StepWrites(step)] = "written"]

\* errors, as finalize collects them.
FinalizeErrors(fs, failing) ==
    SelectSeq(FinalizeSteps,
              LAMBDA step :
                 \/ step \in failing
                 \/ \E n \in DOMAIN FinalizeSteps :
                       /\ FinalizeSteps[n] = step
                       /\ FinalizeFiles(fs, failing, n - 1)[StepReads(step)] = "absent")

\* The mutant of MarksFinalized: the project is marked whatever was recorded.
MarksFinalizedAlways(errors) == TRUE

\* `if not errors: self.state_manager.mark_finalized(...)`
MarksFinalized(errors) == errors = <<>>

\* validate_deployment(state, theme_config): the errors, by what they name.
\* The project directory exists when its state was loaded from it.
ValidateDeployment(p, fs) ==
    (IF p.step \notin {"generated", "deployed"} THEN <<[error |-> "step", asset |-> "none"]>>
     ELSE <<>>)
    \o [j \in 1 .. Len(SelectSeq(AssetOrder, LAMBDA a : fs[<<"project", a>>] = "absent")) |->
          [error |-> "missing_asset",
           asset |-> SelectSeq(AssetOrder, LAMBDA a : fs[<<"project", a>>] = "absent")[j]]]
    \o (IF fs[ThemeBase] = "absent" THEN <<[error |-> "theme_base", asset |-> "none"]>>
        ELSE <<>>)

\* What the copy loop of deploy does with one asset: "source_missing",
\* "target_exists", "copy_failed" (shutil.copy2 or the mkdir before it raised
\* OSError), "copied", or "would_copy" in a dry run.
AssetOutcome(fs, asset, dry_run, overwrite, failing) ==
    IF fs[<<"project", asset>>] = "absent" THEN "source_missing"
    ELSE IF fs[<<"theme", asset>>] # "absent" /\ ~overwrite THEN "target_exists"
    ELSE IF dry_run THEN "would_copy"
    ELSE IF asset \in failing THEN "copy_failed"
    ELSE "copied"

AssetErrors == {"source_missing", "target_exists", "copy_failed"}

\* deploy_errors, in the order of ASSET_FILES.
DeployErrors(fs, dry_run, overwrite, failing) ==
    LET bad == SelectSeq(AssetOrder,
                         LAMBDA a : AssetOutcome(fs, a, dry_run, overwrite, failing)
                                       \in AssetErrors)
    IN  [j \in 1 .. Len(bad) |->
           [error |-> AssetOutcome(fs, bad[j], dry_run, overwrite, failing), asset |-> bad[j]]]

\* files_deployed: the assets copied, or that a dry run would copy.
FilesDeployed(fs, dry_run, overwrite, failing) ==
    {a \in AssetTypes :
        AssetOutcome(fs, a, dry_run, overwrite, failing) \in {"copied", "would_copy"}}

\* The mutant of RecordsDeployment: a dry run is recorded as well.
RecordsDeploymentDryRun(dry_run, deploy_errors) == deploy_errors = <<>>

\* `if not dry_run and not deploy_errors: self.state_manager.add_deployment(...)`
RecordsDeployment(dry_run, deploy_errors) == ~dry_run /\ deploy_errors = <<>>

\* Bounds the writes of state.json by the commands of one run.
MaxWorkflowWrites == 3

\* Which steps of a finalize raise for a reason of their own: none, or one.
FinalizeFailures == {{}} \cup {{FinalizeSteps[n]} : n \in DOMAIN FinalizeSteps}

\* The project generate_candidates leaves, with one device and one logo.
GeneratedProject ==
    UpdateCandidatesCall(NewProject(1, 1, 0), Some(<<1>>), Some(<<1>>), 0).project

\* What is in project_dir beside the directories of the workflow, and in the
\* theme, before the commands run.
InitialAssets == {{}, AssetTypes}
InitialTargets == {{}, {"device"}}

InitWorkflow ==
    /\ project = GeneratedProject
    /\ \E assets \in InitialAssets, targets \in InitialTargets, base \in {"absent", "present"} :
          files = [name \in WorkflowNames |->
                     CASE name[1] = "candidate" -> "written"
                       [] name[1] = "project" -> IF name[2] \in assets THEN "present" ELSE "absent"
                       [] name = ThemeBase -> base
                       [] name[1] = "theme" /\ name # ThemeBase ->
                            IF name[2] \in targets /\ base = "present" THEN "foreign" ELSE "absent"
                       [] OTHER -> "absent"]
    /\ local = [kind |-> "none"]
    /\ img = NoImage /\ orig = NoImage /\ op = "none" /\ args = NoReturn /\ ret = NoReturn
    /\ whiteImg = NoImage /\ blackImg = NoImage /\ outImg = NoImage
    /\ pc = "idle" /\ pixels = <<>>
    /\ saves = 0

\* The select command: update_selection on a project whose candidates were
\* generated; a ValueError ends the command.
Select ==
    /\ saves < MaxWorkflowWrites
    /\ project.exists /\ project.step # "initialized"
    /\ \E device \in {None, Some(1), Some(2)}, logo \in {None, Some(1), Some(2)} :
          /\ device # None \/ logo # None
          /\ StateCall("select", [kind |-> "selection", device |-> device, logo |-> logo],
                       UpdateSelectionCall(project, device, logo, saves + 1))

\* finalize(state): the two checks, the four steps with the errors they
\* record, and mark_finalized when none was recorded.
FinalizeProject ==
    /\ saves < MaxWorkflowWrites
    /\ project.exists
    /\ op' = "finalize"
    /\ args' = [kind |-> "finalize"]
    /\ UNCHANGED <<img, orig, whiteImg, blackImg, outImg, pc, pixels, local>>
    /\ IF project.device = None \/ project.logo = None \/ project.step = "initialized"
       THEN /\ ret' = [kind |-> "raise", error |-> "ValueError"]
            /\ UNCHANGED <<project, saves, files>>
       ELSE IF project.device[1] > Len(project.devices) \/ project.logo[1] > Len(project.logos)
       THEN /\ ret' = [kind |-> "raise", error |-> "IndexError"]
            /\ UNCHANGED <<project, saves, files>>
       ELSE \E failed \in FinalizeFailures :
              LET errors == FinalizeErrors(files, failed)
                  marked == IF MarksFinalized(errors)
                            THEN MarkFinalizedCall(project, saves + 1)
                            ELSE [project |-> project, saved |-> 0]
              IN  /\ files' = FinalizeFiles(files, failed, Len(FinalizeSteps))
                  /\ project' = marked.project
                  /\ saves' = saves + marked.saved
                  /\ ret' = [kind |-> "result", errors |-> errors]

\* Which copies of a deploy raise OSError: none, or the one of a single asset;
\* the copy that raised leaves its target as it was or partly written.
CopyFailures == {{}} \cup {{a} : a \in AssetTypes}

\* deploy(platform_id, theme_name, dry_run, overwrite)
Deploy ==
    /\ saves < MaxWorkflowWrites
    /\ op' = "deploy"
    /\ UNCHANGED <<img, orig, whiteImg, blackImg, outImg, pc, pixels, local>>
    /\ \E theme_name \in ThemeNames, dry_run \in BOOLEAN, overwrite \in BOOLEAN,
          failing \in CopyFailures, partial \in BOOLEAN, mkdir_fails \in BOOLEAN :
          /\ args' = [kind |-> "deploy", theme |-> theme_name, dry_run |-> dry_run,
                      overwrite |-> overwrite]
          /\ IF ~project.exists \/ ~ThemeConfigured(theme_name)
             THEN /\ failing = {} /\ ~partial /\ ~mkdir_fails
                  /\ ret' = [kind |-> "raise", error |-> "DeploymentError"]
                  /\ UNCHANGED <<project, saves, files>>
             ELSE IF ValidateDeployment(project, files) # <<>>
             THEN /\ failing = {} /\ ~partial /\ ~mkdir_fails
                  /\ ret' = [kind |-> "result", success |-> FALSE, files_deployed |-> {},
                             errors |-> ValidateDeployment(project, files)]
                  /\ UNCHANGED <<project, saves, files>>
             ELSE IF ~dry_run /\ mkdir_fails
             THEN /\ failing = {} /\ ~partial
                  /\ ret' = [kind |-> "raise", error |-> "OSError"]
                  /\ UNCHANGED <<project, saves, files>>
             ELSE LET deploy_errors == DeployErrors(files, dry_run, overwrite, failing)
                      files_deployed == FilesDeployed(files, dry_run, overwrite, failing)
                      recorded == IF RecordsDeployment(dry_run, deploy_errors)
                                  THEN AddDeploymentCall(project, theme_name, files_deployed,
                                                         saves + 1)
                                  ELSE [project |-> project, saved |-> 0]
                  IN  /\ ~mkdir_fails
                      /\ dry_run => failing = {}
                      /\ partial => failing # {}
                      /\ files' = [name \in WorkflowNames |->
                                     IF name[1] # "theme" \/ name = ThemeBase THEN files[name]
                                     ELSE CASE AssetOutcome(files, name[2], dry_run, overwrite,
                                                            failing) = "copied" -> "copied"
                                            [] /\ AssetOutcome(files, name[2], dry_run, overwrite,
                                                               failing) = "copy_failed"
                                               /\ partial -> "partial"
                                            [] OTHER -> files[name]]
                      /\ project' = recorded.project
                      /\ saves' = saves + recorded.saved
                      /\ ret' = [kind |-> "result", success |-> (deploy_errors = <<>>),
                                 files_deployed |-> files_deployed, errors |-> deploy_errors]

NextWorkflow ==
    \/ Select
    \/ FinalizeProject
    \/ Deploy
    \/ AddDeployment

SpecWorkflow == InitWorkflow /\ [][NextWorkflow]_vars

\* Every asset file is where deploy looks for it.
AssetsPresent == \A a \in AssetTypes : files[<<"project", a>>] = "present"

\* The step has appended a deployment to the project and set DEPLOYED.
Recorded ==
    /\ project.exists /\ project'.exists
    /\ Len(project'.deployments) = Len(project.deployments) + 1
    /\ project'.step = "deployed"

\* C23: a finalized project can be deployed: for a project whose persisted
\* step is FINALIZED, with the theme configured, its base path existing and
\* all five asset files present, a deploy that is not a dry run and in which
\* no copy raises passes validation, succeeds and moves the persisted step
\* to DEPLOYED.
C23_FinalizedDeploys ==
    [][(/\ op' = "deploy"
        /\ project.exists /\ project.step = "finalized"
        /\ ThemeConfigured(args'.theme) /\ files[ThemeBase] = "present"
        /\ AssetsPresent
        /\ ~args'.dry_run /\ args'.overwrite)
          => \/ ret'.kind = "raise" /\ ret'.error = "OSError"
             \/ /\ ret'.kind = "result"
                /\ \A j \in 1 .. Len(ret'.errors) : ret'.errors[j].error = "copy_failed"
                /\ ret'.success => Recorded]_vars

\* C26: finalize moves a project to FINALIZED only if both a device and a
\* logo are selected and each of the four steps succeeded; with an incomplete
\* selection it raises ValueError, and when a step recorded an error the
\* persisted state is left as it was.
C26_FinalizeMarks ==
    [][op' = "finalize"
          => /\ (project.device = None \/ project.logo = None)
                   => ret' = [kind |-> "raise", error |-> "ValueError"] /\ project' = project
             /\ (ret'.kind = "result" /\ ret'.errors # <<>>)
                   => project' = project /\ saves' = saves
             /\ project' # project
                   => /\ project'.step = "finalized"
                      /\ project.device # None /\ project.logo # None
                      /\ ret'.kind = "result" /\ ret'.errors = <<>>
                      /\ \A n \in DOMAIN FinalizeSteps :
                            files'[StepWrites(FinalizeSteps[n])] = "written"]_vars

\* The copy of the selected device failed, the other copy and the logo
\* variants were made, and the project is still at SELECTION_MADE.
C26_Witness ==
    /\ op = "finalize"
    /\ ret = [kind |-> "result", errors |-> <<"device_copy", "device_final">>]
    /\ files[<<"final", "logo_variants">>] = "written"
    /\ project.step = "selection_made"

\* C27, as stated, for the calls that return a result on a project whose step
\* validation accepts: deploy records a deployment iff it is not a dry run
\* and no asset file produced an error.
C27_RecordsIff ==
    [][(op' = "deploy" /\ ret'.kind = "result" /\ project.step = "deployed")
          => (Recorded <=> (/\ ~args'.dry_run
                            /\ \A j \in 1 .. Len(ret'.errors) :
                                  ret'.errors[j].asset = "none"))]_vars

\* C27, amended: a deploy that passes validation and returns a result records
\* a deployment (appends a DeploymentInfo of the files deployed and sets
\* DEPLOYED) iff it is not a dry run and no asset file produced an error; a
\* deploy that fails validation or raises records nothing; a dry run changes
\* neither the persisted project state nor any file under the theme; with
\* overwrite disabled an existing target file is never replaced.
C27_DeployRecords ==
    [][op' = "deploy"
          => /\ (ret'.kind = "result" /\ ValidateDeployment(project, files) = <<>>)
                   => /\ Recorded <=> (~args'.dry_run /\ ret'.errors = <<>>)
                      /\ Recorded
                            => project'.deployments[Len(project'.deployments)]
                                  = [theme |-> args'.theme, deployed_at |-> saves',
                                     files |-> ret'.files_deployed]
             /\ (ret'.kind = "raise" \/ ValidateDeployment(project, files) # <<>>)
                   => ~Recorded
             /\ ~Recorded => project' = project /\ saves' = saves
             /\ args'.dry_run => project' = project /\ files' = files
             /\ ~args'.overwrite
                   => \A a \in AssetTypes :
                         files[<<"theme", a>>] # "absent"
                            => files'[<<"theme", a>>] = files[<<"theme", a>>]]_vars

\* A deploy without overwrite has found the target of the device in place and
\* has left it, has copied another asset, and has recorded nothing.
C27_Witness ==
    /\ op = "deploy"
    /\ ~args.dry_run /\ ~args.overwrite
    /\ ret.kind = "result" /\ ~ret.success
    /\ ret.errors = <<[error |-> "target_exists", asset |-> "device"]>>
    /\ files[<<"theme", "device">>] = "foreign"
    /\ files[<<"theme", "logo_dark_color">>] = "copied"
    /\ Len(project.deployments) = 1

====
